---- MODULE Spec2Model ----
(***************************************************************************)
(* State resolution v2 of ruma-state-res (crates/ruma-state-res/src/lib.rs) *)
(* as a state machine: resolve and the functions it is built from.          *)
(*                                                                          *)
(* Event ids are the integers 1..n, ordered as the code orders EventIds     *)
(* (Ord on the id).  None (Option::None of an id) is 0.  A state key is a   *)
(* pair <<event type, state_key>>; a StateMap is a function from a set of   *)
(* state keys.  A HashMap / HashSet is a function / a set; wherever the     *)
(* code turns one into a sequence, the model takes any enumeration order.   *)
(***************************************************************************)
EXTENDS Integers, Sequences, FiniteSets, TLC

VARIABLES
    pc,               \* position in the function being run
    events,           \* the event table behind event_fetch: id -> event
    store,            \* the ids event_fetch answers Some for
    known,            \* the ids event_exists answers true for
    oracle,           \* auth_check's answers: free, or a table
    room_version,     \* TRUE iff RoomVersion::new accepts the version tag
    state_sets,       \* resolve's state_sets: a sequence of StateMap<Id>
    auth_chain_sets,  \* resolve's auth_chain_sets: a sequence of sets of ids
    clean,            \* separate's unconflicted map
    conflicting,      \* separate's conflicted map: key -> sequence of ids
    auth_chain_diff,  \* the sequence get_auth_chain_diff emits
    event,            \* is_power_event's argument
    is_power,         \* is_power_event's answer
    graph,            \* the graph handed to lexicographical_topological_sort
    key_fn,           \* key_fn's answer for every node: Ok((power, ts)) or Err
    kahn,             \* outdegree_map, reverse_graph, heap and sorted of the sort
    sort_result,      \* what lexicographical_topological_sort returned
    events_to_sort,   \* the list handed to reverse_topological_power_sort
    event_to_pl,      \* its event_to_pl: graph node -> power level of the sender
    all_conflicted,   \* resolve's full conflicted set
    sorted_control_levels,  \* the control events, sorted, as auth-checked first
    resolved_state,   \* iterative_auth_check's resolved_state
    todo,             \* the events of events_to_check not yet checked
    pass,             \* 0 before, 1 in the control pass, 2 in the mainline pass
    sorted_left_events,     \* mainline_sort's result
    mainline,         \* mainline_sort's mainline, as the call that returned Ok left it
    mainline_map,     \* mainline_sort's mainline_map: id -> depth
    order_map,        \* mainline_sort's order_map: id -> (depth, ts, id)
    to_sort,          \* the list handed to mainline_sort
    checked,          \* the calls of auth_check so far, in order
    asked,            \* the ids event_exists and event_fetch were called with
    result,           \* what resolve returned
    run,              \* 1 in the first call of resolve, 2 in a second call
    first_result,     \* what the first call returned, once a second has begun
    walk_state,       \* add_event_and_auth_chain_to_graph's stack `state`
    walk_pl,          \* mainline_sort's `pl` while it walks the mainline
    walk_ev,          \* get_mainline_depth's `event` while it walks
    walk_depth,       \* what get_mainline_depth returned
    json,             \* the JSON object handed to MediaSource::deserialize
    media_source      \* what MediaSource::deserialize returned

inputVars == <<events, store, known, oracle, room_version, state_sets, auth_chain_sets>>
resolveVars == <<all_conflicted, sorted_control_levels, resolved_state, todo, pass,
                 sorted_left_events, checked, asked, result>>
separateVars == <<clean, conflicting>>
powerVars == <<event, is_power>>
topoVars == <<graph, key_fn, kahn, sort_result>>
orderVars == <<run, first_result>>
mainlineVars == <<mainline, mainline_map, order_map, to_sort>>
sortVars == <<events_to_sort, event_to_pl>>
mediaVars == <<json, media_source>>
loopVars == <<walk_state, walk_pl, walk_ev, walk_depth>>
vars == <<pc, inputVars, orderVars, separateVars, auth_chain_diff, powerVars, topoVars,
          resolveVars, mainlineVars, sortVars, mediaVars, loopVars>>

None == 0
NoKey == "<none>"           \* state_key() = None
Unparsable == "<garbage>"   \* content that from_json_str rejects

Create == "m.room.create"
PowerLevels == "m.room.power_levels"
JoinRules == "m.room.join_rules"
Member == "m.room.member"
ThirdPartyInvite == "m.room.third_party_invite"
Topic == "m.room.topic"
Message == "m.room.message"
EventTypes == {Create, PowerLevels, JoinRules, Member, ThirdPartyInvite, Topic, Message}

Alice == "@alice:foo"
Bob == "@bob:foo"
UserIds == {Alice, Bob}
Memberships == {"join", "leave", "ban", "invite", "knock"}

\* ---------------------------------------------------------------- helpers

Range(s) == {s[i] : i \in 1..Len(s)}

\* map.values(), as a set
Values(map) == {map[k] : k \in DOMAIN map}

RECURSIVE SeqsUpTo(_, _)
\* all sequences over S of length at most n
SeqsUpTo(S, n) ==
    IF n = 0 THEN {<<>>}
    ELSE LET shorter == SeqsUpTo(S, n - 1)
         IN shorter \cup {Append(s, x) : s \in {t \in shorter : Len(t) = n - 1}, x \in S}

\* the enumerations of a finite set: the orders an iterator over a hash
\* collection can produce
Enumerations(S) ==
    {s \in [1..Cardinality(S) -> S] : \A i, j \in 1..Cardinality(S) : s[i] = s[j] => i = j}

RECURSIVE AnyOrder(_)
\* one enumeration of a finite set of ids, used where the code iterates over
\* a hash collection and the order cannot change what is computed
AnyOrder(S) ==
    IF S = {} THEN <<>>
    ELSE LET least == CHOOSE x \in S : \A y \in S : x <= y
         IN <<least>> \o AnyOrder(S \ {least})

\* all StateMaps with keys among K and values among V
StateMaps(K, V) == UNION {[D -> V] : D \in SUBSET K}

\* ------------------------------------------------------------- separate

\* state_set.get(key)
Get(map, key) == IF key \in DOMAIN map THEN map[key] ELSE None

\* itertools all_equal over the collected Option<&Id>
all_equal(v) == \A i, j \in 1..Len(v) : v[i] = v[j]

\* separate, were a key that an input lacks no conflict by itself
separate_absent_ignored(sets) ==
    LET keys == UNION {DOMAIN sets[i] : i \in 1..Len(sets)}
        present(key) == SelectSeq([i \in 1..Len(sets) |-> Get(sets[i], key)],
                                  LAMBDA o : o # None)
        agreed == {key \in keys : all_equal(present(key))}
    IN  [unconflicted |-> [key \in agreed |-> present(key)[1]],
         conflicted |-> [key \in keys \ agreed |-> present(key)]]

\* separate, were a key unconflicted only when two or more inputs agree on it
separate_needs_two_sets(sets) ==
    LET keys == UNION {DOMAIN sets[i] : i \in 1..Len(sets)}
        event_ids(key) == [i \in 1..Len(sets) |-> Get(sets[i], key)]
        agreed == {key \in keys : Len(sets) > 1 /\ all_equal(event_ids(key))}
    IN  [unconflicted |-> [key \in agreed |-> event_ids(key)[Len(sets)]],
         conflicted |-> [key \in keys \ agreed |->
                            SelectSeq(event_ids(key), LAMBDA o : o # None)]]

\* separate, were only the keys of the first input looked at
separate_keys_of_first_set(sets) ==
    LET keys == IF sets = <<>> THEN {} ELSE DOMAIN sets[1]
        event_ids(key) == [i \in 1..Len(sets) |-> Get(sets[i], key)]
        agreed == {key \in keys : all_equal(event_ids(key))}
    IN  [unconflicted |-> [key \in agreed |-> event_ids(key)[Len(sets)]],
         conflicted |-> [key \in keys \ agreed |->
                            SelectSeq(event_ids(key), LAMBDA o : o # None)]]

\* fn separate: (unconflicted_state, conflicted_state)
separate(sets) ==
    LET keys == UNION {DOMAIN sets[i] : i \in 1..Len(sets)}
        event_ids(key) == [i \in 1..Len(sets) |-> Get(sets[i], key)]
        agreed == {key \in keys : all_equal(event_ids(key))}
    IN  [unconflicted |-> [key \in agreed |-> event_ids(key)[Len(sets)]],
         conflicted |-> [key \in keys \ agreed |->
                            SelectSeq(event_ids(key), LAMBDA o : o # None)]]

\* ------------------------------------------------- get_auth_chain_diff

RECURSIVE Flatten(_)
\* auth_chain_sets.into_iter().flatten(): the ids of every set, one set after
\* the other, each set in some enumeration order (the counts do not depend
\* on it)
Flatten(chains) ==
    IF chains = <<>> THEN <<>>
    ELSE AnyOrder(Head(chains)) \o Flatten(Tail(chains))

RECURSIVE CountIds(_, _)
\* the loop `*id_counts.entry(id).or_default() += 1` over the flattened ids
CountIds(ids, id_counts) ==
    IF ids = <<>> THEN id_counts
    ELSE LET id == Head(ids)
             old == IF id \in DOMAIN id_counts THEN id_counts[id] ELSE 0
         IN CountIds(Tail(ids),
                     [x \in DOMAIN id_counts \cup {id} |->
                         IF x = id THEN old + 1 ELSE id_counts[x]])

EmptyMap == [x \in {} |-> None]

id_counts_of(chains) == CountIds(Flatten(chains), EmptyMap)

\* the filter of get_auth_chain_diff, were it `count <= num_sets`
diff_kept_le(chains) ==
    LET id_counts == id_counts_of(chains)
    IN {id \in DOMAIN id_counts : id_counts[id] <= Len(chains)}

\* the ids the filter_map keeps: count < num_sets
diff_kept(chains) ==
    LET num_sets == Len(chains)
        id_counts == id_counts_of(chains)
    IN {id \in DOMAIN id_counts : id_counts[id] < num_sets}

\* fn get_auth_chain_diff: the sequences the returned iterator can yield
get_auth_chain_diff(chains) == Enumerations(diff_kept(chains))

\* ------------------------------------------------------- is_power_event

is_type_and_key(ev, ev_type, state_key) ==
    ev.type = ev_type /\ ev.state_key = state_key

\* from_json_str::<RoomMemberEventContent>(content) is Ok
member_content_parses(ev) == ev.membership # Unparsable

\* is_power_event, were the sender of a leave or ban not compared to the state_key
is_power_event_any_sender(ev) ==
    CASE ev.type \in {PowerLevels, JoinRules, Create} -> ev.state_key = ""
      [] ev.type = Member ->
            /\ member_content_parses(ev)
            /\ ev.membership \in {"leave", "ban"}
      [] OTHER -> FALSE

\* fn is_power_event
is_power_event(ev) ==
    CASE ev.type \in {PowerLevels, JoinRules, Create} -> ev.state_key = ""
      [] ev.type = Member ->
            IF member_content_parses(ev) /\ ev.membership \in {"leave", "ban"}
            THEN ev.sender # ev.state_key   \* Some(sender) != state_key()
            ELSE FALSE
      [] OTHER -> FALSE

\* --------------------------------- lexicographical_topological_sort

\* a Result: Ok(value) or Err(kind); errors are compared by their variant
Ok(v) == [ok |-> TRUE, val |-> v]
Err(kind) == [ok |-> FALSE, err |-> kind]
NotFound == "NotFound"
InvalidPdu == "InvalidPdu"
SerdeJson == "SerdeJson"
Unsupported == "Unsupported"
AuthError == "AuthEvent"
Pending == [ok |-> FALSE, err |-> "<pending>"]

\* derive(Ord) on TieBreaker {inv_power_level, age, event_id}, as tuples
TieLess(a, b) ==
    \/ a[1] < b[1]
    \/ a[1] = b[1] /\ a[2] < b[2]
    \/ a[1] = b[1] /\ a[2] = b[2] /\ a[3] < b[3]

\* the TieBreaker, were the power level not negated
TieBreaker_power_ascending(keys, node) == <<keys[node].val[1], keys[node].val[2], node>>

\* the TieBreaker pushed for a node whose key_fn answer is Ok
TieBreaker(keys, node) == <<0 - keys[node].val[1], keys[node].val[2], node>>

\* the nodes any edge or key of the graph names
GraphIds(g) == DOMAIN g \cup UNION {g[n] : n \in DOMAIN g}

\* reverse_graph: every node and every edge target is a key; an edge target
\* maps to the nodes that have an edge to it
ReverseGraph(g) ==
    [t \in GraphIds(g) |-> {n \in DOMAIN g : t \in g[n]}]

\* index of the element BinaryHeap::pop yields: the least TieBreaker (the
\* heap holds Reverse(item), so the greatest Reverse)
HeapMin(heap) ==
    CHOOSE i \in 1..Len(heap) : \A j \in 1..Len(heap) : ~TieLess(heap[j], heap[i])

RemoveAt(s, i) == SubSeq(s, 1, i - 1) \o SubSeq(s, i + 1, Len(s))

\* the loop `for (node, edges) in graph`: the sort's state before the while
\* loop, or the error of a key_fn call that fails (every key_fn error of one
\* call is the same variant, so the iteration order does not show)
KahnInit(g, keys) ==
    LET zero == {n \in DOMAIN g : g[n] = {}}
        order == AnyOrder(zero)
    IN  IF \E n \in zero : ~keys[n].ok
        THEN Err(keys[CHOOSE n \in zero : ~keys[n].ok].err)
        ELSE Ok([outdegree_map |-> g,
                 reverse_graph |-> ReverseGraph(g),
                 heap |-> [i \in 1..Len(order) |-> TieBreaker(keys, order[i])],
                 sorted |-> <<>>])

\* one turn of the while loop, were a parent pushed without `if out.is_empty()`
KahnStep_push_early(k, keys) ==
    LET i == HeapMin(k.heap)
        node == k.heap[i][3]
        parents == k.reverse_graph[node]
        out == [n \in DOMAIN k.outdegree_map |->
                   IF n \in parents THEN k.outdegree_map[n] \ {node}
                   ELSE k.outdegree_map[n]]
        ready == AnyOrder(parents)
    IN  IF \E n \in Range(ready) : ~keys[n].ok
        THEN Err(keys[CHOOSE n \in Range(ready) : ~keys[n].ok].err)
        ELSE Ok([outdegree_map |-> out,
                 reverse_graph |-> k.reverse_graph,
                 heap |-> RemoveAt(k.heap, i) \o
                          [j \in 1..Len(ready) |-> TieBreaker(keys, ready[j])],
                 sorted |-> Append(k.sorted, node)])

\* one turn of `while let Some(Reverse(item)) = heap.pop()`, for a non-empty
\* heap: the state after it, or the error of a key_fn call that fails
KahnStep(k, keys) ==
    LET i == HeapMin(k.heap)
        node == k.heap[i][3]
        parents == k.reverse_graph[node]
        \* out.remove(node) for every parent of the popped node
        out == [n \in DOMAIN k.outdegree_map |->
                   IF n \in parents THEN k.outdegree_map[n] \ {node}
                   ELSE k.outdegree_map[n]]
        ready == AnyOrder({n \in parents : out[n] = {}})
    IN  IF \E n \in Range(ready) : ~keys[n].ok
        THEN Err(keys[CHOOSE n \in Range(ready) : ~keys[n].ok].err)
        ELSE Ok([outdegree_map |-> out,
                 reverse_graph |-> k.reverse_graph,
                 heap |-> RemoveAt(k.heap, i) \o
                          [j \in 1..Len(ready) |-> TieBreaker(keys, ready[j])],
                 sorted |-> Append(k.sorted, node)])

RECURSIVE KahnLoop(_, _)
KahnLoop(k, keys) ==
    IF k.heap = <<>> THEN Ok(k.sorted)
    ELSE LET next == KahnStep(k, keys)
         IN IF next.ok THEN KahnLoop(next.val, keys) ELSE next

\* pub async fn lexicographical_topological_sort
lexicographical_topological_sort(g, keys) ==
    LET start == KahnInit(g, keys)
    IN IF start.ok THEN KahnLoop(start.val, keys) ELSE start

\* ------------------------------------------------------ the event store

\* event_fetch(id) is Some
Fetchable(id) == id \in store

\* (event_type, state_key) of a stored event, as with_state_key builds it
KeyOf(id) == <<events[id].type, events[id].state_key>>

\* event.auth_events() of what event_fetch(id) returns; nothing for None
AuthEventsOf(id) == IF Fetchable(id) THEN events[id].auth_events ELSE <<>>

is_power_event_id(id) == Fetchable(id) /\ is_power_event(events[id])

RECURSIVE first_power_parent(_, _)
\* the loops `for aid in auth_events() { fetch; if is_type_and_key(.., RoomPowerLevels, "") break }`:
\* Ok(the first auth parent that is a power-levels event with state_key ""),
\* Ok(None) when there is none.  A parent that cannot be fetched is skipped
\* when `strict` is FALSE (get_power_level_for_sender) and ends the loop with
\* NotFound when it is TRUE (mainline_sort, get_mainline_depth).
first_power_parent(aids, strict) ==
    IF aids = <<>> THEN Ok(None)
    ELSE LET aid == Head(aids)
         IN IF ~Fetchable(aid)
            THEN IF strict THEN Err(NotFound) ELSE first_power_parent(Tail(aids), strict)
            ELSE IF is_type_and_key(events[aid], PowerLevels, "")
                 THEN Ok(aid)
                 ELSE first_power_parent(Tail(aids), strict)

\* get_power_level_for_sender, were the users map not looked at
get_power_level_for_sender_default_only(event_id) ==
    LET pl == first_power_parent(AuthEventsOf(event_id), FALSE).val
    IN  IF pl = None THEN Ok(0)
        ELSE IF ~events[pl].pl_parses THEN Err(SerdeJson)
        ELSE Ok(events[pl].users_default)

\* async fn get_power_level_for_sender
get_power_level_for_sender(event_id) ==
    LET pl == first_power_parent(AuthEventsOf(event_id), FALSE).val
    IN  IF pl = None THEN Ok(0)
        ELSE IF ~events[pl].pl_parses THEN Err(SerdeJson)
        ELSE IF Fetchable(event_id) /\ events[event_id].sender \in DOMAIN events[pl].users
             THEN Ok(events[pl].users[events[event_id].sender])
             ELSE Ok(events[pl].users_default)

\* ------------------------------------ add_event_and_auth_chain_to_graph

RECURSIVE WalkAuthEvents_all_parents(_, _, _, _, _)
\* the inner `for aid in auth_events()`, were auth_diff not consulted
WalkAuthEvents_all_parents(g, stack, eid, aids, auth_diff) ==
    IF aids = <<>> THEN [graph |-> g, state |-> stack]
    ELSE LET aid == Head(aids)
         IN WalkAuthEvents_all_parents([g EXCEPT ![eid] = @ \cup {aid}],
                                       IF aid \in DOMAIN g THEN stack ELSE Append(stack, aid),
                                       eid, Tail(aids), auth_diff)

RECURSIVE WalkAuthEvents(_, _, _, _, _)
\* the inner `for aid in auth_events()` of one popped eid
WalkAuthEvents(g, stack, eid, aids, auth_diff) ==
    IF aids = <<>> THEN [graph |-> g, state |-> stack]
    ELSE LET aid == Head(aids)
         IN IF aid \in auth_diff
            THEN WalkAuthEvents([g EXCEPT ![eid] = @ \cup {aid}],
                                IF aid \in DOMAIN g THEN stack ELSE Append(stack, aid),
                                eid, Tail(aids), auth_diff)
            ELSE WalkAuthEvents(g, stack, eid, Tail(aids), auth_diff)

RECURSIVE WalkState(_, _, _)
\* `while let Some(eid) = state.pop()`
WalkState(g, stack, auth_diff) ==
    IF stack = <<>> THEN g
    ELSE LET eid == stack[Len(stack)]
             \* graph.entry(eid).or_default()
             g1 == IF eid \in DOMAIN g THEN g
                   ELSE [n \in DOMAIN g \cup {eid} |-> IF n = eid THEN {} ELSE g[n]]
             w == WalkAuthEvents(g1, SubSeq(stack, 1, Len(stack) - 1), eid,
                                 AuthEventsOf(eid), auth_diff)
         IN WalkState(w.graph, w.state, auth_diff)

\* add_event_and_auth_chain_to_graph, were the auth chain of the event not walked
add_event_and_auth_chain_to_graph_seed_only(g, event_id, auth_diff) ==
    IF event_id \in DOMAIN g THEN g
    ELSE [n \in DOMAIN g \cup {event_id} |-> IF n = event_id THEN {} ELSE g[n]]

\* async fn add_event_and_auth_chain_to_graph
add_event_and_auth_chain_to_graph(g, event_id, auth_diff) ==
    WalkState(g, <<event_id>>, auth_diff)

RECURSIVE BuildGraph(_, _, _)
\* the loop `for event_id in events_to_sort` of reverse_topological_power_sort
BuildGraph(g, seeds, auth_diff) ==
    IF seeds = <<>> THEN g
    ELSE BuildGraph(add_event_and_auth_chain_to_graph(g, Head(seeds), auth_diff),
                    Tail(seeds), auth_diff)

\* the loop `for event_id in graph.keys()`: the power level of the sender of
\* every node, when get_power_level_for_sender fails for none
event_to_pl_of(g) ==
    IF \E n \in DOMAIN g : ~get_power_level_for_sender(n).ok THEN EmptyMap
    ELSE [n \in DOMAIN g |-> get_power_level_for_sender(n).val]

\* the `fetcher` closure of reverse_topological_power_sort, tabulated over the
\* nodes: Ok((pl, origin_server_ts)) or NotFound
PowerKeys(g) ==
    [n \in GraphIds(g) |->
        IF n \in DOMAIN g /\ Fetchable(n)
        THEN Ok(<<get_power_level_for_sender(n).val, events[n].ts>>)
        ELSE Err(NotFound)]

\* async fn reverse_topological_power_sort
reverse_topological_power_sort(seeds, auth_diff) ==
    LET g == BuildGraph(EmptyMap, seeds, auth_diff)
    IN  IF \E n \in DOMAIN g : ~get_power_level_for_sender(n).ok
        THEN Err(SerdeJson)
        ELSE lexicographical_topological_sort(g, PowerKeys(g))

\* ------------------------------------------------- iterative_auth_check

\* map.insert(key, value)
Put(map, key, value) ==
    [k \in DOMAIN map \cup {key} |-> IF k = key THEN value ELSE map[k]]

RECURSIVE DeclaredAuthEvents_missing_is_fatal(_, _)
\* the loop `for aid in event.auth_events()`, were a parent that cannot be
\* fetched an error
DeclaredAuthEvents_missing_is_fatal(aids, auth_events) ==
    IF aids = <<>> THEN Ok(auth_events)
    ELSE LET aid == Head(aids)
         IN IF ~Fetchable(aid) THEN Err(NotFound)
            ELSE IF events[aid].state_key = NoKey THEN Err(InvalidPdu)
            ELSE DeclaredAuthEvents_missing_is_fatal(Tail(aids),
                                                     Put(auth_events, KeyOf(aid), aid))

RECURSIVE DeclaredAuthEvents(_, _)
\* the loop `for aid in event.auth_events()`: the fetched auth parents by
\* (type, state_key), a later parent replacing an earlier one of the same key;
\* a parent that cannot be fetched is only logged
DeclaredAuthEvents(aids, auth_events) ==
    IF aids = <<>> THEN Ok(auth_events)
    ELSE LET aid == Head(aids)
         IN IF ~Fetchable(aid) THEN DeclaredAuthEvents(Tail(aids), auth_events)
            ELSE IF events[aid].state_key = NoKey THEN Err(InvalidPdu)
            ELSE DeclaredAuthEvents(Tail(aids), Put(auth_events, KeyOf(aid), aid))

\* event_auth::auth_types_for_event: the state keys whose events authorize
\* an event (power levels, the sender's membership, create; for a member
\* event also the target's membership, the join rules for join and invite,
\* and the third-party invite an invite names)
auth_types_for_event(ev) ==
    IF ev.type = Create THEN {}
    ELSE {<<PowerLevels, "">>, <<Member, ev.sender>>, <<Create, "">>}
         \cup (IF ev.type = Member /\ ev.state_key # NoKey /\ ev.membership # Unparsable
               THEN {<<Member, ev.state_key>>}
                    \cup (IF ev.membership \in {"join", "invite", "knock"}
                          THEN {<<JoinRules, "">>} ELSE {})
                    \cup (IF ev.membership = "invite" /\ ev.token # NoKey
                          THEN {<<ThirdPartyInvite, ev.token>>} ELSE {})
               ELSE {})

RECURSIVE OverlayResolved(_, _, _)
\* the loop `for key in auth_types_for_event(..)`: the resolved event of a key
\* replaces the declared auth parent of that key
OverlayResolved(keys, resolved, auth_events) ==
    IF keys = {} THEN auth_events
    ELSE LET key == CHOOSE k \in keys : TRUE
             rest == keys \ {key}
         IN IF key \in DOMAIN resolved /\ Fetchable(resolved[key])
            THEN OverlayResolved(rest, resolved, Put(auth_events, key, resolved[key]))
            ELSE OverlayResolved(rest, resolved, auth_events)

\* the auth_events map, were the declared auth parents to win over the resolved state
auth_context_declared_first(event_id, resolved) ==
    LET overlay == OverlayResolved(auth_types_for_event(events[event_id]), resolved, EmptyMap)
        declared == DeclaredAuthEvents(events[event_id].auth_events, overlay)
    IN declared

\* the auth_events map iterative_auth_check hands to auth_check (as fetch_state)
auth_context(event_id, resolved) ==
    LET declared == DeclaredAuthEvents(events[event_id].auth_events, EmptyMap)
    IN  IF ~declared.ok THEN declared
        ELSE Ok(OverlayResolved(auth_types_for_event(events[event_id]), resolved,
                                declared.val))

\* `auth_events.iter().find_map(type == RoomThirdPartyInvite)`: what the
\* iteration over the HashMap can find first
current_third_party(auth_events) ==
    LET found == {auth_events[k] : k \in {k \in DOMAIN auth_events :
                      events[auth_events[k]].type = ThirdPartyInvite}}
    IN IF found = {} THEN {None} ELSE found

Verdicts == {"accept", "reject", "error"}

\* event_auth::auth_check, a black box here: Ok(true), Ok(false) or Err.  With
\* a free oracle any answer; with a tabulated one, the answer it gives for the
\* event and the third-party invite handed to it.
auth_check(event_id, third_party) ==
    IF oracle.free THEN Verdicts ELSE {oracle.table[<<event_id, third_party>>]}

\* the checks before auth_check, were an event that cannot be fetched or has
\* no state_key passed on
auth_check_input_unguarded(event_id, resolved) ==
    auth_context(event_id, resolved)

\* the checks of one event of events_to_check that come before auth_check
auth_check_input(event_id, resolved) ==
    IF ~Fetchable(event_id) THEN Err(NotFound)
    ELSE IF events[event_id].state_key = NoKey THEN Err(InvalidPdu)
    ELSE auth_context(event_id, resolved)

\* one turn of the loop, were a rejected event inserted as well
apply_verdict_insert_always(event_id, resolved, verdict) ==
    IF verdict = "error" THEN Err(AuthError)
    ELSE Ok(Put(resolved, KeyOf(event_id), event_id))

\* one turn of the loop, were an accepted event inserted only under a key the
\* map does not hold yet
apply_verdict_keep_first(event_id, resolved, verdict) ==
    IF verdict = "error" THEN Err(AuthError)
    ELSE IF verdict = "accept" /\ KeyOf(event_id) \notin DOMAIN resolved
         THEN Ok(Put(resolved, KeyOf(event_id), event_id))
    ELSE Ok(resolved)

\* what one turn of the loop does with auth_check's answer
apply_verdict(event_id, resolved, verdict) ==
    IF verdict = "error" THEN Err(AuthError)
    ELSE IF verdict = "accept" THEN Ok(Put(resolved, KeyOf(event_id), event_id))
    ELSE Ok(resolved)

\* --------------------------------------------------------- mainline_sort

Diverges == "<diverges>"   \* a loop of the code that never ends

\* a walk along auth parents visits no event twice unless it loops for ever
Fuel == Cardinality(DOMAIN events) + 1

RECURSIVE mainline_walk(_, _, _)
\* `while let Some(p) = pl` of mainline_sort
mainline_walk(pl, walked, fuel) ==
    IF pl = None THEN Ok(walked)
    ELSE IF fuel = 0 THEN Err(Diverges)
    ELSE IF ~Fetchable(pl) THEN Err(NotFound)
    ELSE LET next == first_power_parent(events[pl].auth_events, TRUE)
         IN IF ~next.ok THEN next
            ELSE mainline_walk(next.val, Append(walked, pl), fuel - 1)

\* mainline.iter().rev().enumerate(), were the mainline not reversed
mainline_map_of_tip_first(mainline_vec) ==
    [id \in Range(mainline_vec) |->
        (CHOOSE i \in 1..Len(mainline_vec) : mainline_vec[i] = id) - 1]

\* mainline.iter().rev().enumerate() collected into a map
mainline_map_of(mainline_vec) ==
    [id \in Range(mainline_vec) |->
        Len(mainline_vec) - (CHOOSE i \in 1..Len(mainline_vec) :
                                mainline_vec[i] = id /\ \A j \in 1..Len(mainline_vec) :
                                                           mainline_vec[j] = id => j >= i)]

\* get_mainline_depth, were the auth parents of the event not walked
get_mainline_depth_self_only(ev, depths, fuel) ==
    IF ev \in DOMAIN depths THEN Ok(depths[ev]) ELSE Ok(0)

RECURSIVE get_mainline_depth(_, _, _)
\* async fn get_mainline_depth, for a fetched event
get_mainline_depth(ev, depths, fuel) ==
    IF ev = None THEN Ok(0)
    ELSE IF ev \in DOMAIN depths THEN Ok(depths[ev])
    ELSE IF fuel = 0 THEN Err(Diverges)
    ELSE LET next == first_power_parent(events[ev].auth_events, TRUE)
         IN IF ~next.ok THEN next
            ELSE get_mainline_depth(next.val, depths, fuel - 1)

RECURSIVE SortByKey_ts_first(_)
\* sort_by_key over the order map, were the depth not part of the key
SortByKey_ts_first(order) ==
    IF DOMAIN order = {} THEN <<>>
    ELSE LET key(x) == <<0, order[x][2], order[x][3]>>
             least == CHOOSE x \in DOMAIN order :
                         \A y \in DOMAIN order : ~TieLess(key(y), key(x))
         IN <<least>> \o SortByKey_ts_first([x \in DOMAIN order \ {least} |-> order[x]])

RECURSIVE SortByKey(_)
\* sort_by_key over the order map: ascending by (depth, ts, id)
SortByKey(order) ==
    IF DOMAIN order = {} THEN <<>>
    ELSE LET least == CHOOSE x \in DOMAIN order :
                         \A y \in DOMAIN order : ~TieLess(order[y], order[x])
         IN <<least>> \o SortByKey([x \in DOMAIN order \ {least} |-> order[x]])

\* the loop `for ev_id in to_sort.iter()`: the order map, with an entry for
\* every event that is fetched and whose depth is found
order_map_of(ids, depths) ==
    LET depth(id) == get_mainline_depth(id, depths, Fuel)
        kept == {id \in Range(ids) : Fetchable(id) /\ depth(id).ok}
    IN [id \in kept |-> <<depth(id).val, events[id].ts, id>>]

\* the mainline vector of a call of mainline_sort that returns Ok: empty
\* when the call bails out on an empty to_sort
mainline_built(ids, resolved_power_level) ==
    IF ids = <<>> THEN <<>>
    ELSE mainline_walk(resolved_power_level, <<>>, Fuel).val

\* async fn mainline_sort
mainline_sort(ids, resolved_power_level) ==
    IF ids = <<>> THEN Ok(<<>>)
    ELSE LET walk == mainline_walk(resolved_power_level, <<>>, Fuel)
         IN IF ~walk.ok THEN walk
            ELSE LET depths == mainline_map_of(walk.val)
                     depth(id) == get_mainline_depth(id, depths, Fuel)
                     hang == {id \in Range(ids) :
                                 Fetchable(id) /\ depth(id) = Err(Diverges)}
                 IN IF hang # {} THEN Err(Diverges)
                    ELSE Ok(SortByKey(order_map_of(ids, depths)))

\* ------------------------------------------- MediaSource::deserialize

Absent == "<absent>"          \* Option::None of a field
Null == "<null>"              \* the JSON value null
WrongShape == "<wrong shape>" \* a JSON value the type of the field rejects
MissingField == "missing field url"
InvalidType == "invalid type"

\* the value of the field of that name in a JSON object (a sequence of
\* name/value pairs with distinct names), Absent when there is none
FieldOf(object, name) ==
    LET at == {i \in 1..Len(object) : object[i].name = name}
    IN IF at = {} THEN Absent ELSE object[CHOOSE i \in at : TRUE].value

\* an Option field of a derived Deserialize: None for a missing field and for
\* null, Some for a value of the right shape, an error for any other
OptionField(object, name) ==
    LET value == FieldOf(object, name)
    IN IF value = WrongShape THEN Err(InvalidType)
       ELSE IF value = Null THEN Ok(Absent)
       ELSE Ok(value)

\* MediaSourceJsonRepr::deserialize: url and file, other fields ignored
MediaSourceJsonRepr(object) ==
    LET url == OptionField(object, "url")
        file == OptionField(object, "file")
    IN IF ~url.ok \/ ~file.ok THEN Err(InvalidType)
       ELSE Ok([url |-> url.val, file |-> file.val])

\* the match, were url preferred when both are set
MediaSource_match_prefers_url(repr) ==
    IF repr.url = Absent /\ repr.file = Absent THEN Err(MissingField)
    ELSE IF repr.url # Absent THEN Ok([variant |-> "Plain", value |-> repr.url])
    ELSE Ok([variant |-> "Encrypted", value |-> repr.file])

\* the match of MediaSource::deserialize
MediaSource_match(repr) ==
    IF repr.url = Absent /\ repr.file = Absent THEN Err(MissingField)
    ELSE IF repr.file # Absent THEN Ok([variant |-> "Encrypted", value |-> repr.file])
    ELSE Ok([variant |-> "Plain", value |-> repr.url])

\* impl Deserialize for MediaSource
MediaSource_deserialize(object) ==
    LET repr == MediaSourceJsonRepr(object)
    IN IF ~repr.ok THEN repr ELSE MediaSource_match(repr.val)

\* --------------------------------------------------------------- resolve

\* extend, were the resolved state to win over the unconflicted one
Extend_resolved_wins(map, other) ==
    [k \in DOMAIN map \cup DOMAIN other |-> IF k \in DOMAIN map THEN map[k] ELSE other[k]]

\* resolved_state.extend(clean), were it left out
Extend_skipped(map, other) == map

\* resolved_state.extend(clean)
Extend(map, other) ==
    [k \in DOMAIN map \cup DOMAIN other |-> IF k \in DOMAIN other THEN other[k] ELSE map[k]]

\* conflicting.into_values().flatten(), as a set
ConflictedIds(conflicted) == UNION {Range(conflicted[k]) : k \in DOMAIN conflicted}

NoAsk == [exists |-> {}, fetch |-> {}]

\* `let (clean, conflicting) = separate(state_sets.into_iter())`
Separate ==
    /\ pc = "start"
    /\ clean' = separate(state_sets).unconflicted
    /\ conflicting' = separate(state_sets).conflicted
    /\ pc' = "separated"
    /\ UNCHANGED <<inputVars, loopVars, mediaVars, sortVars, mainlineVars, orderVars, auth_chain_diff, powerVars, topoVars, resolveVars>>

\* `if conflicting.is_empty() { return Ok(clean) }`, were the room version
\* validated before it
ReturnClean_version_first ==
    /\ pc = "separated"
    /\ DOMAIN conflicting = {}
    /\ result' = IF room_version THEN Ok(clean) ELSE Err(Unsupported)
    /\ pc' = "done"
    /\ UNCHANGED <<inputVars, loopVars, mediaVars, sortVars, mainlineVars, orderVars, separateVars,
                   auth_chain_diff, powerVars, topoVars,
                   all_conflicted, sorted_control_levels, resolved_state, todo, pass,
                   sorted_left_events, checked, asked>>

\* `if conflicting.is_empty() { return Ok(clean) }`
ReturnClean ==
    /\ pc = "separated"
    /\ DOMAIN conflicting = {}
    /\ result' = Ok(clean)
    /\ pc' = "done"
    /\ UNCHANGED <<inputVars, loopVars, mediaVars, sortVars, mainlineVars, orderVars, separateVars, auth_chain_diff, powerVars, topoVars,
                   all_conflicted, sorted_control_levels, resolved_state, todo, pass,
                   sorted_left_events, checked, asked>>

\* the full conflicted set, were it collected without the event_exists filter
FullConflicted_unfiltered ==
    /\ pc = "separated"
    /\ conflicting # EmptyMap
    /\ \E diff \in get_auth_chain_diff(auth_chain_sets) :
          LET candidates == Range(diff) \cup ConflictedIds(conflicting)
          IN /\ all_conflicted' = candidates
             /\ asked' = [asked EXCEPT !.exists = @ \cup candidates]
    /\ pc' = "conflicted"
    /\ UNCHANGED <<inputVars, loopVars, mediaVars, sortVars, mainlineVars, orderVars, separateVars, auth_chain_diff, powerVars, topoVars,
                   sorted_control_levels, resolved_state, todo, pass,
                   sorted_left_events, checked, result>>

\* the full conflicted set, were it computed without the early return before it
FullConflicted_no_early_return ==
    /\ pc = "separated"
    /\ \E diff \in get_auth_chain_diff(auth_chain_sets) :
          LET candidates == Range(diff) \cup ConflictedIds(conflicting)
          IN /\ all_conflicted' = {id \in candidates : id \in known}
             /\ asked' = [asked EXCEPT !.exists = @ \cup candidates]
    /\ pc' = "conflicted"
    /\ UNCHANGED <<inputVars, loopVars, mediaVars, sortVars, mainlineVars, orderVars, separateVars, auth_chain_diff, powerVars, topoVars,
                   sorted_control_levels, resolved_state, todo, pass,
                   sorted_left_events, checked, result>>

\* the auth chain diff chained with the conflicted ids, filtered by
\* event_exists and collected into all_conflicted
FullConflicted ==
    /\ pc = "separated"
    /\ DOMAIN conflicting # {}
    /\ \E diff \in get_auth_chain_diff(auth_chain_sets) :
          LET candidates == Range(diff) \cup ConflictedIds(conflicting)
          IN /\ all_conflicted' = {id \in candidates : id \in known}
             /\ asked' = [asked EXCEPT !.exists = @ \cup candidates]
    /\ pc' = "conflicted"
    /\ UNCHANGED <<inputVars, loopVars, mediaVars, sortVars, mainlineVars, orderVars, separateVars, auth_chain_diff, powerVars, topoVars,
                   sorted_control_levels, resolved_state, todo, pass,
                   sorted_left_events, checked, result>>

\* the control events of all_conflicted (in the order the HashSet yields
\* them) and their reverse_topological_power_sort
SortControl ==
    /\ pc = "conflicted"
    /\ \E control_events \in Enumerations({id \in all_conflicted : is_power_event_id(id)}) :
          LET sorted == reverse_topological_power_sort(control_events, all_conflicted)
          IN /\ events_to_sort' = control_events
             /\ graph' = BuildGraph(EmptyMap, control_events, all_conflicted)
             /\ event_to_pl' = event_to_pl_of(graph')
             /\ sort_result' = sorted
             /\ IF sorted.ok
                THEN /\ sorted_control_levels' = sorted.val
                     /\ pc' = "sorted"
                     /\ result' = result
                ELSE /\ sorted_control_levels' = sorted_control_levels
                     /\ pc' = "done"
                     /\ result' = sorted
    /\ asked' = [asked EXCEPT !.fetch = @ \cup all_conflicted]
    /\ UNCHANGED <<inputVars, loopVars, mediaVars, mainlineVars, orderVars, separateVars, auth_chain_diff, powerVars, key_fn, kahn,
                   all_conflicted, resolved_state, todo, pass, sorted_left_events, checked>>

\* `RoomVersion::new(room_version)?` and the start of the control pass
BeginControlPass ==
    /\ pc = "sorted"
    /\ IF room_version
       THEN /\ resolved_state' = clean
            /\ todo' = sorted_control_levels
            /\ pass' = 1
            /\ pc' = "auth"
            /\ result' = result
       ELSE /\ result' = Err(Unsupported)
            /\ pc' = "done"
            /\ UNCHANGED <<resolved_state, todo, pass>>
    /\ UNCHANGED <<inputVars, loopVars, mediaVars, sortVars, mainlineVars, orderVars, separateVars, auth_chain_diff, powerVars, topoVars,
                   all_conflicted, sorted_control_levels, sorted_left_events, checked, asked>>

\* one turn of the loop of iterative_auth_check
AuthCheckEvent ==
    /\ pc = "auth"
    /\ todo # <<>>
    /\ LET event_id == Head(todo)
           input == auth_check_input(event_id, resolved_state)
       IN IF ~input.ok
          THEN /\ result' = input
               /\ pc' = "done"
               /\ UNCHANGED <<resolved_state, todo, checked>>
          ELSE \E third_party \in current_third_party(input.val) :
               \E verdict \in auth_check(event_id, third_party) :
                  LET after == apply_verdict(event_id, resolved_state, verdict)
                  IN /\ checked' = Append(checked,
                                     [pass |-> pass, event_id |-> event_id,
                                      auth_events |-> input.val,
                                      third_party |-> third_party, verdict |-> verdict])
                     /\ IF after.ok
                        THEN /\ resolved_state' = after.val
                             /\ todo' = Tail(todo)
                             /\ pc' = pc
                             /\ result' = result
                        ELSE /\ result' = after
                             /\ pc' = "done"
                             /\ UNCHANGED <<resolved_state, todo>>
    /\ asked' = [asked EXCEPT !.fetch = @ \cup {Head(todo)}]
    /\ UNCHANGED <<inputVars, loopVars, mediaVars, sortVars, mainlineVars, orderVars, separateVars, auth_chain_diff, powerVars, topoVars,
                   all_conflicted, sorted_control_levels, pass, sorted_left_events>>

\* the end of the control pass, were the control events not removed from
\* events_to_resolve
SortRest_keeps_control ==
    /\ pc = "auth"
    /\ pass = 1
    /\ todo = <<>>
    /\ \E events_to_resolve \in Enumerations(all_conflicted) :
          LET power_event == Get(resolved_state, <<PowerLevels, "">>)
              sorted == mainline_sort(events_to_resolve, power_event)
          IN IF sorted.ok
             THEN /\ sorted_left_events' = sorted.val
                  /\ mainline' = mainline_built(events_to_resolve, power_event)
                  /\ mainline_map' = mainline_map_of(mainline')
                  /\ order_map' = order_map_of(events_to_resolve, mainline_map')
                  /\ to_sort' = events_to_resolve
                  /\ todo' = sorted.val
                  /\ pass' = 2
                  /\ pc' = pc
                  /\ result' = result
             ELSE /\ result' = sorted
                  /\ pc' = "done"
                  /\ UNCHANGED <<sorted_left_events, mainlineVars, todo, pass>>
    /\ UNCHANGED <<inputVars, loopVars, mediaVars, sortVars, orderVars, separateVars, auth_chain_diff, powerVars, topoVars,
                   all_conflicted, sorted_control_levels, resolved_state, checked, asked>>

\* the end of the control pass, were only the control events the first pass
\* accepted removed from events_to_resolve
SortRest_removes_accepted ==
    /\ pc = "auth"
    /\ pass = 1
    /\ todo = <<>>
    /\ \E events_to_resolve \in
            Enumerations(all_conflicted \ {checked[i].event_id :
                            i \in {j \in 1..Len(checked) : checked[j].verdict = "accept"}}) :
          LET power_event == Get(resolved_state, <<PowerLevels, "">>)
              sorted == mainline_sort(events_to_resolve, power_event)
          IN IF sorted.ok
             THEN /\ sorted_left_events' = sorted.val
                  /\ mainline' = mainline_built(events_to_resolve, power_event)
                  /\ mainline_map' = mainline_map_of(mainline')
                  /\ order_map' = order_map_of(events_to_resolve, mainline_map')
                  /\ to_sort' = events_to_resolve
                  /\ todo' = sorted.val
                  /\ pass' = 2
                  /\ pc' = pc
                  /\ result' = result
             ELSE /\ result' = sorted
                  /\ pc' = "done"
                  /\ UNCHANGED <<sorted_left_events, mainlineVars, todo, pass>>
    /\ UNCHANGED <<inputVars, loopVars, mediaVars, sortVars, orderVars, separateVars, auth_chain_diff, powerVars, topoVars,
                   all_conflicted, sorted_control_levels, resolved_state, checked, asked>>

\* the end of the control pass: events_to_resolve (in the order the HashSet
\* yields them), the resolved power event and mainline_sort
SortRest ==
    /\ pc = "auth"
    /\ pass = 1
    /\ todo = <<>>
    /\ \E events_to_resolve \in
            Enumerations(all_conflicted \ Range(sorted_control_levels)) :
          LET power_event == Get(resolved_state, <<PowerLevels, "">>)
              sorted == mainline_sort(events_to_resolve, power_event)
          IN IF sorted.ok
             THEN /\ sorted_left_events' = sorted.val
                  /\ mainline' = mainline_built(events_to_resolve, power_event)
                  /\ mainline_map' = mainline_map_of(mainline')
                  /\ order_map' = order_map_of(events_to_resolve, mainline_map')
                  /\ to_sort' = events_to_resolve
                  /\ todo' = sorted.val
                  /\ pass' = 2
                  /\ pc' = pc
                  /\ result' = result
             ELSE /\ result' = sorted
                  /\ pc' = "done"
                  /\ UNCHANGED <<sorted_left_events, mainlineVars, todo, pass>>
    /\ UNCHANGED <<inputVars, loopVars, mediaVars, sortVars, orderVars, separateVars, auth_chain_diff, powerVars, topoVars,
                   all_conflicted, sorted_control_levels, resolved_state, checked, asked>>

\* the end of the mainline pass: `resolved_state.extend(clean); Ok(resolved_state)`
Finish ==
    /\ pc = "auth"
    /\ pass = 2
    /\ todo = <<>>
    /\ result' = Ok(Extend(resolved_state, clean))
    /\ pc' = "done"
    /\ UNCHANGED <<inputVars, loopVars, mediaVars, sortVars, mainlineVars, orderVars, separateVars, auth_chain_diff, powerVars, topoVars,
                   all_conflicted, sorted_control_levels, resolved_state, todo, pass,
                   sorted_left_events, checked, asked>>

\* ------------------------------------------------------------ the inputs

MaxSets == 2      \* state sets handed to resolve
MaxAuth == 1      \* auth parents an event of the fixture declares
MaxFaults == 1    \* events the fetcher or event_exists fails on, or a bad version

NoUsers == [u \in {} |-> 0]

NewEvent(type, state_key, sender, membership) ==
    [type |-> type, state_key |-> state_key, sender |-> sender,
     membership |-> membership, token |-> NoKey, auth_events |-> <<>>, ts |-> 0,
     users |-> NoUsers, users_default |-> 0, pl_parses |-> TRUE]

\* The fixture, after the tests' BAN_STATE_SET: two power-levels events (PA by
\* alice, PB by bob), alice's ban of bob (MB) and bob's own join (IME).
Ids == 1..4

Fixture(id) ==
    CASE id = 1 -> [NewEvent(PowerLevels, "", Alice, Unparsable) EXCEPT
                       !.users = (Alice :> 100) @@ (Bob :> 50)]
      [] id = 2 -> [NewEvent(PowerLevels, "", Bob, Unparsable) EXCEPT
                       !.users = (Alice :> 100) @@ (Bob :> 50)]
      [] id = 3 -> NewEvent(Member, Bob, Alice, "ban")
      [] OTHER -> NewEvent(Member, Bob, Bob, "join")

\* the orders in which the events of the fixture can have been created: the
\* join before or after the ban
Ages == {<<1, 2, 3, 4>>, <<1, 2, 4, 3>>}

\* p was created before id
Older(age, p, id) ==
    \E i, j \in 1..Len(age) : i < j /\ age[i] = p /\ age[j] = id

\* the event tables of the fixture: every event declares at most MaxAuth auth
\* parents, all older than itself (the auth events form a DAG), and the
\* origin_server_ts run against the ids
EventTables ==
    {[id \in Ids |-> [Fixture(id) EXCEPT !.auth_events = auth[id], !.ts = 10 - id]] :
        auth \in {a \in [Ids -> SeqsUpTo(Ids, MaxAuth)] :
                     \E age \in Ages :
                        \A id \in Ids : \A p \in Range(a[id]) : Older(age, p, id)}}

\* a state map over a table of events holds, under a key, an event of that key
ConsistentMaps(table) ==
    {m \in StateMaps({<<table[id].type, table[id].state_key>> :
                         id \in {i \in DOMAIN table : table[i].state_key # NoKey}},
                     DOMAIN table) :
        \A k \in DOMAIN m : <<table[m[k]].type, table[m[k]].state_key>> = k}

RECURSIVE AuthChain(_, _, _)
\* "the full recursive set of auth_events for each event in the state_sets"
AuthChain(table, frontier, chain) ==
    LET parents == UNION {Range(table[id].auth_events) : id \in frontier}
    IN IF parents \subseteq chain THEN chain
       ELSE AuthChain(table, parents \ chain, chain \cup parents)

Faults ==
    {<<None, "version">>} \cup (Ids \X {"unknown", "unfetchable", "hidden", "stateless"})

\* the event table with the events of the "stateless" faults left without a
\* state_key
WithFaults(table, f) ==
    [id \in DOMAIN table |->
        IF <<id, "stateless">> \in f THEN [table[id] EXCEPT !.state_key = NoKey]
        ELSE table[id]]
FaultSets == {f \in SUBSET Faults : Cardinality(f) <= MaxFaults}

FreeOracle == [free |-> TRUE, table |-> EmptyMap]

IdleSeparate == clean = EmptyMap /\ conflicting = EmptyMap
IdleDiff == auth_chain_diff = <<>>
IdlePower == event = NewEvent(Message, NoKey, Alice, Unparsable) /\ is_power = FALSE
IdleTopo == graph = EmptyMap /\ key_fn = EmptyMap /\ kahn = EmptyMap /\ sort_result = Pending
IdleResolve ==
    /\ all_conflicted = {}
    /\ sorted_control_levels = <<>>
    /\ resolved_state = EmptyMap
    /\ todo = <<>>
    /\ pass = 0
    /\ sorted_left_events = <<>>
    /\ checked = <<>>
    /\ asked = NoAsk
    /\ result = Pending
IdleOrder == run = 1 /\ first_result = Pending
IdleLoops ==
    walk_state = <<>> /\ walk_pl = None /\ walk_ev = None /\ walk_depth = Pending
IdleMedia == json = <<>> /\ media_source = Pending
IdleSort == events_to_sort = <<>> /\ event_to_pl = EmptyMap
IdleMainline ==
    mainline = <<>> /\ mainline_map = EmptyMap /\ order_map = EmptyMap /\ to_sort = <<>>

Init ==
    /\ pc = "start"
    /\ \E table \in EventTables, f \in FaultSets :
          /\ events = WithFaults(table, f)
          /\ store = {id \in Ids : <<id, "unknown">> \notin f /\ <<id, "unfetchable">> \notin f}
          /\ known = {id \in Ids : <<id, "unknown">> \notin f /\ <<id, "hidden">> \notin f}
          /\ room_version = (<<None, "version">> \notin f)
    /\ oracle = FreeOracle
    /\ state_sets \in SeqsUpTo(ConsistentMaps(events), MaxSets)
    /\ auth_chain_sets = [i \in 1..Len(state_sets) |->
                             AuthChain(events, Values(state_sets[i]), {})]
    /\ IdleSeparate /\ IdleDiff /\ IdlePower /\ IdleTopo /\ IdleResolve /\ IdleOrder /\ IdleMainline /\ IdleSort /\ IdleMedia /\ IdleLoops

Next ==
    \/ Separate
    \/ ReturnClean
    \/ FullConflicted
    \/ SortControl
    \/ BeginControlPass
    \/ AuthCheckEvent
    \/ SortRest
    \/ Finish

Spec == Init /\ [][Next]_vars

\* ------------------------------------------- the functions on their own

IdleInputs ==
    /\ events = EmptyMap
    /\ store = {}
    /\ known = {}
    /\ oracle = FreeOracle
    /\ room_version = TRUE

\* separate, on any state maps (a value need not be an event of its key)
MaxSepSets == 3   \* state sets handed to separate
MaxSepIds == 2    \* event ids the state sets draw their values from
SepKeys == {<<Topic, "">>, <<Member, Bob>>}

InitSeparate ==
    /\ pc = "start"
    /\ state_sets \in SeqsUpTo(StateMaps(SepKeys, 1..MaxSepIds), MaxSepSets)
    /\ auth_chain_sets = <<>>
    /\ IdleInputs /\ IdleSeparate /\ IdleDiff /\ IdlePower /\ IdleTopo /\ IdleResolve /\ IdleOrder /\ IdleMainline /\ IdleSort /\ IdleMedia /\ IdleLoops

SpecSeparate == InitSeparate /\ [][Separate]_vars

\* get_auth_chain_diff, on any auth chain sets
MaxChains == 3    \* auth chain sets
MaxChainIds == 3  \* event ids the auth chain sets draw from

InitDiff ==
    /\ pc = "diff"
    /\ auth_chain_sets \in SeqsUpTo(SUBSET (1..MaxChainIds), MaxChains)
    /\ state_sets = <<>>
    /\ IdleInputs /\ IdleSeparate /\ IdleDiff /\ IdlePower /\ IdleTopo /\ IdleResolve /\ IdleOrder /\ IdleMainline /\ IdleSort /\ IdleMedia /\ IdleLoops

\* the iterator get_auth_chain_diff returns, drained
Diff ==
    /\ pc = "diff"
    /\ auth_chain_diff' \in get_auth_chain_diff(auth_chain_sets)
    /\ pc' = "diffed"
    /\ UNCHANGED <<inputVars, loopVars, mediaVars, sortVars, mainlineVars, orderVars, separateVars, powerVars, topoVars, resolveVars>>

SpecDiff == InitDiff /\ [][Diff]_vars

\* is_power_event, on any event
StateKeys == {NoKey, "", Alice, Bob}

InitPower ==
    /\ pc = "power"
    /\ \E type \in EventTypes, state_key \in StateKeys, sender \in UserIds,
          membership \in Memberships \cup {Unparsable} :
          event = NewEvent(type, state_key, sender, membership)
    /\ is_power = FALSE
    /\ state_sets = <<>>
    /\ auth_chain_sets = <<>>
    /\ IdleInputs /\ IdleSeparate /\ IdleDiff /\ IdleTopo /\ IdleResolve /\ IdleOrder /\ IdleMainline /\ IdleSort /\ IdleMedia /\ IdleLoops

Classify ==
    /\ pc = "power"
    /\ is_power' = is_power_event(event)
    /\ pc' = "classified"
    /\ UNCHANGED <<inputVars, loopVars, mediaVars, sortVars, mainlineVars, orderVars, separateVars, auth_chain_diff, event, topoVars, resolveVars>>

SpecPower == InitPower /\ [][Classify]_vars

\* lexicographical_topological_sort, on any graph (cyclic ones and ones with
\* an edge to a node that is no key included) and any key_fn
TopoNodes == 3    \* ids the graph draws its nodes and edge targets from
MaxPower == 1     \* power levels key_fn answers with
MaxTs == 1        \* timestamps key_fn answers with

KeyAnswers ==
    {Ok(<<pl, ts>>) : pl \in 0..MaxPower, ts \in 0..MaxTs} \cup {Err(NotFound)}

\* the graph of test_lexicographical_sort, with l, m, n, o, p as 1..5:
\* l -> o, m -> {n, o}, n -> o, o -> {}, p -> o
TestGraph == (1 :> {4}) @@ (2 :> {3, 4}) @@ (3 :> {4}) @@ (4 :> {}) @@ (5 :> {4})

\* its key_fn: Ok((0, 0)) for every id
TestKeyFn == [n \in DOMAIN TestGraph |-> Ok(<<0, 0>>)]

InitTopo ==
    /\ pc = "topo"
    /\ \/ /\ \E nodes \in SUBSET (1..TopoNodes) : graph \in [nodes -> SUBSET (1..TopoNodes)]
          /\ key_fn \in [1..TopoNodes -> KeyAnswers]
       \/ /\ graph = TestGraph
          /\ key_fn = TestKeyFn
    /\ kahn = EmptyMap
    /\ sort_result = Pending
    /\ state_sets = <<>>
    /\ auth_chain_sets = <<>>
    /\ IdleInputs /\ IdleSeparate /\ IdleDiff /\ IdlePower /\ IdleResolve /\ IdleOrder /\ IdleMainline /\ IdleSort /\ IdleMedia /\ IdleLoops

\* the sort up to its while loop
TopoStart ==
    /\ pc = "topo"
    /\ LET start == KahnInit(graph, key_fn)
       IN IF start.ok
          THEN kahn' = start.val /\ pc' = "kahn" /\ sort_result' = sort_result
          ELSE kahn' = kahn /\ pc' = "sorted" /\ sort_result' = start
    /\ UNCHANGED <<inputVars, loopVars, mediaVars, sortVars, mainlineVars, orderVars, separateVars, auth_chain_diff, powerVars, graph, key_fn,
                   resolveVars>>

\* one turn of the while loop
TopoStep ==
    /\ pc = "kahn"
    /\ kahn.heap # <<>>
    /\ LET next == KahnStep(kahn, key_fn)
       IN IF next.ok
          THEN kahn' = next.val /\ pc' = pc /\ sort_result' = sort_result
          ELSE kahn' = kahn /\ pc' = "sorted" /\ sort_result' = next
    /\ UNCHANGED <<inputVars, loopVars, mediaVars, sortVars, mainlineVars, orderVars, separateVars, auth_chain_diff, powerVars, graph, key_fn,
                   resolveVars>>

\* `Ok(sorted)`
TopoReturn ==
    /\ pc = "kahn"
    /\ kahn.heap = <<>>
    /\ sort_result' = Ok(kahn.sorted)
    /\ pc' = "sorted"
    /\ UNCHANGED <<inputVars, loopVars, mediaVars, sortVars, mainlineVars, orderVars, separateVars, auth_chain_diff, powerVars, graph, key_fn,
                   kahn, resolveVars>>

NextTopo == TopoStart \/ TopoStep \/ TopoReturn

SpecTopo == InitTopo /\ [][NextTopo]_vars

\* iterative_auth_check, on any list of events and any unconflicted state
MaxChecks == 2    \* events of events_to_check

InitAuth ==
    /\ pc = "auth"
    /\ \E table \in EventTables, f \in FaultSets :
          /\ events = WithFaults(table, f)
          /\ store = {id \in Ids : <<id, "unknown">> \notin f /\ <<id, "unfetchable">> \notin f}
          /\ known = {id \in Ids : <<id, "unknown">> \notin f /\ <<id, "hidden">> \notin f}
          /\ room_version = (<<None, "version">> \notin f)
    /\ oracle = FreeOracle
    /\ state_sets = <<>>
    /\ auth_chain_sets = <<>>
    /\ todo \in SeqsUpTo(Ids, MaxChecks)
    /\ resolved_state \in ConsistentMaps(events)
    /\ pass = 2
    /\ all_conflicted = {}
    /\ sorted_control_levels = <<>>
    /\ sorted_left_events = <<>>
    /\ checked = <<>>
    /\ asked = NoAsk
    /\ result = Pending
    /\ IdleSeparate /\ IdleDiff /\ IdlePower /\ IdleTopo /\ IdleOrder /\ IdleMainline /\ IdleSort /\ IdleMedia /\ IdleLoops

\* `Ok(resolved_state)` of iterative_auth_check
AuthReturn ==
    /\ pc = "auth"
    /\ todo = <<>>
    /\ result' = Ok(resolved_state)
    /\ pc' = "done"
    /\ UNCHANGED <<inputVars, loopVars, mediaVars, sortVars, mainlineVars, orderVars, separateVars, auth_chain_diff, powerVars, topoVars,
                   all_conflicted, sorted_control_levels, resolved_state, todo, pass,
                   sorted_left_events, checked, asked>>

NextAuth == AuthCheckEvent \/ AuthReturn

SpecAuth == InitAuth /\ [][NextAuth]_vars

\* reverse_topological_power_sort, on any list of events and any auth_diff
\* (held in all_conflicted, as resolve passes it), with power-levels events of
\* several contents
MaxSeeds == 2     \* events of events_to_sort

\* the contents of a power-levels event: the fixture's, one that names alice
\* alone and sets users_default, and one that does not parse
PowerContents ==
    {[users |-> (Alice :> 100) @@ (Bob :> 50), users_default |-> 0, pl_parses |-> TRUE],
     [users |-> (Alice :> 100), users_default |-> 10, pl_parses |-> TRUE],
     [users |-> NoUsers, users_default |-> 0, pl_parses |-> FALSE]}

PowerTables ==
    {[id \in Ids |->
        IF table[id].type = PowerLevels
        THEN [table[id] EXCEPT !.users = content[id].users,
                               !.users_default = content[id].users_default,
                               !.pl_parses = content[id].pl_parses]
        ELSE table[id]] :
        table \in EventTables,
        content \in [{id \in Ids : Fixture(id).type = PowerLevels} -> PowerContents]}

InitControl ==
    /\ pc = "control"
    /\ events \in PowerTables
    /\ store \in {Ids \ missing : missing \in {m \in SUBSET Ids : Cardinality(m) <= MaxFaults}}
    /\ known = store
    /\ room_version = TRUE
    /\ oracle = FreeOracle
    /\ state_sets = <<>>
    /\ auth_chain_sets = <<>>
    /\ events_to_sort \in SeqsUpTo(Ids, MaxSeeds)
    /\ all_conflicted \in SUBSET Ids
    /\ event_to_pl = EmptyMap
    /\ sorted_control_levels = <<>>
    /\ resolved_state = EmptyMap
    /\ todo = <<>>
    /\ pass = 0
    /\ sorted_left_events = <<>>
    /\ checked = <<>>
    /\ asked = NoAsk
    /\ result = Pending
    /\ IdleSeparate /\ IdleDiff /\ IdlePower /\ IdleTopo /\ IdleOrder /\ IdleMainline /\ IdleMedia /\ IdleLoops

\* one call of reverse_topological_power_sort
PowerSort ==
    /\ pc = "control"
    /\ graph' = BuildGraph(EmptyMap, events_to_sort, all_conflicted)
    /\ event_to_pl' = event_to_pl_of(graph')
    /\ sort_result' = reverse_topological_power_sort(events_to_sort, all_conflicted)
    /\ pc' = "done"
    /\ UNCHANGED <<inputVars, loopVars, mediaVars, mainlineVars, orderVars, separateVars, auth_chain_diff, powerVars,
                   key_fn, kahn, resolveVars, events_to_sort>>

SpecControl == InitControl /\ [][PowerSort]_vars

\* MediaSource::deserialize, on any JSON object with the fields body, url and
\* file in any order
MaxFields == 3    \* fields of the JSON object

FieldValues ==
    [body |-> {""},
     url |-> {"mxc://localhost/file", Null, WrongShape},
     file |-> {"mxc://localhost/encryptedfile", Null, WrongShape}]

JsonFields ==
    UNION {{[name |-> name, value |-> value] : value \in FieldValues[name]} :
              name \in DOMAIN FieldValues}

JsonObjects ==
    {object \in SeqsUpTo(JsonFields, MaxFields) :
        \A i, j \in 1..Len(object) : i # j => object[i].name # object[j].name}

InitMedia ==
    /\ pc = "media"
    /\ json \in JsonObjects
    /\ media_source = Pending
    /\ state_sets = <<>>
    /\ auth_chain_sets = <<>>
    /\ IdleInputs /\ IdleSeparate /\ IdleDiff /\ IdlePower /\ IdleTopo /\ IdleResolve
    /\ IdleOrder /\ IdleMainline /\ IdleSort /\ IdleLoops

Deserialize ==
    /\ pc = "media"
    /\ media_source' = MediaSource_deserialize(json)
    /\ pc' = "done"
    /\ UNCHANGED <<inputVars, loopVars, orderVars, separateVars, auth_chain_diff, powerVars, topoVars,
                   resolveVars, mainlineVars, sortVars, json>>

SpecMedia == InitMedia /\ [][Deserialize]_vars

\* the loops of resolve one turn at a time, on event tables whose auth_events
\* may form cycles: the stack walk of add_event_and_auth_chain_to_graph followed
\* by the sort of the graph it built, and the mainline walk of mainline_sort
\* followed by get_mainline_depth for the one event of to_sort
MaxLoopIds == 3   \* events of the table
MaxLoopAuth == 2  \* auth parents an event of the table declares
MaxLoopEdges == 3 \* auth parents the events of the table declare in all

LoopIds == 1..MaxLoopIds

RECURSIVE SumOfLens(_, _)
SumOfLens(f, ids) ==
    IF ids = {} THEN 0
    ELSE LET id == CHOOSE x \in ids : TRUE
         IN Len(f[id]) + SumOfLens(f, ids \ {id})

\* the event tables: the events of the fixture, each declaring any ids of the
\* table (itself included) as its auth parents
LoopTables ==
    {[id \in LoopIds |-> [Fixture(id) EXCEPT !.auth_events = auth[id], !.ts = 10 - id]] :
        auth \in {a \in [LoopIds -> {s \in SeqsUpTo(LoopIds, MaxLoopAuth) :
                                         Cardinality(Range(s)) = Len(s)}] :
                     SumOfLens(a, LoopIds) <= MaxLoopEdges}}

InitLoops ==
    /\ events \in LoopTables
    /\ store \in {LoopIds \ missing :
                     missing \in {m \in SUBSET LoopIds : Cardinality(m) <= MaxFaults}}
    /\ known = store
    /\ room_version = TRUE
    /\ oracle = FreeOracle
    /\ state_sets = <<>>
    /\ auth_chain_sets = <<>>
    /\ \/ /\ pc = "graph_walk"
          /\ \E event_id \in LoopIds : walk_state = <<event_id>>
          /\ all_conflicted \in SUBSET LoopIds
          /\ walk_pl = None
          /\ to_sort = <<>>
       \/ /\ pc = "mainline_walk"
          /\ walk_pl \in {None} \cup {id \in LoopIds : Fixture(id).type = PowerLevels}
          /\ \E ev_id \in LoopIds : to_sort = <<ev_id>>
          /\ all_conflicted = {}
          /\ walk_state = <<>>
    /\ walk_ev = None
    /\ walk_depth = Pending
    /\ mainline = <<>> /\ mainline_map = EmptyMap /\ order_map = EmptyMap
    /\ sorted_control_levels = <<>>
    /\ resolved_state = EmptyMap
    /\ todo = <<>>
    /\ pass = 0
    /\ sorted_left_events = <<>>
    /\ checked = <<>>
    /\ asked = NoAsk
    /\ result = Pending
    /\ IdleSeparate /\ IdleDiff /\ IdlePower /\ IdleTopo /\ IdleOrder /\ IdleSort /\ IdleMedia

\* one turn of `while let Some(eid) = state.pop()`, were eid left on the stack
GraphWalkStep_keeps_top ==
    /\ pc = "graph_walk"
    /\ walk_state # <<>>
    /\ LET eid == walk_state[Len(walk_state)]
           g1 == IF eid \in DOMAIN graph THEN graph
                 ELSE [n \in DOMAIN graph \cup {eid} |-> IF n = eid THEN {} ELSE graph[n]]
           w == WalkAuthEvents(g1, walk_state, eid, AuthEventsOf(eid), all_conflicted)
       IN /\ graph' = w.graph
          /\ walk_state' = w.state
    /\ UNCHANGED <<pc, inputVars, mediaVars, sortVars, mainlineVars, orderVars, separateVars,
                   auth_chain_diff, powerVars, key_fn, kahn, sort_result, resolveVars,
                   walk_pl, walk_ev, walk_depth>>

\* one turn of `while let Some(eid) = state.pop()`
GraphWalkStep ==
    /\ pc = "graph_walk"
    /\ walk_state # <<>>
    /\ LET eid == walk_state[Len(walk_state)]
           \* graph.entry(eid).or_default()
           g1 == IF eid \in DOMAIN graph THEN graph
                 ELSE [n \in DOMAIN graph \cup {eid} |-> IF n = eid THEN {} ELSE graph[n]]
           w == WalkAuthEvents(g1, SubSeq(walk_state, 1, Len(walk_state) - 1), eid,
                               AuthEventsOf(eid), all_conflicted)
       IN /\ graph' = w.graph
          /\ walk_state' = w.state
    /\ UNCHANGED <<pc, inputVars, mediaVars, sortVars, mainlineVars, orderVars, separateVars,
                   auth_chain_diff, powerVars, key_fn, kahn, sort_result, resolveVars,
                   walk_pl, walk_ev, walk_depth>>

\* the stack is empty: the graph goes to lexicographical_topological_sort with
\* the key_fn of reverse_topological_power_sort
GraphWalkReturn ==
    /\ pc = "graph_walk"
    /\ walk_state = <<>>
    /\ key_fn' = PowerKeys(graph)
    /\ pc' = "topo"
    /\ UNCHANGED <<inputVars, loopVars, mediaVars, sortVars, mainlineVars, orderVars,
                   separateVars, auth_chain_diff, powerVars, graph, kahn, sort_result,
                   resolveVars>>

\* one turn of `while let Some(p) = pl`.  The mainline grows by one id a turn;
\* a walk that has pushed more ids than there are events goes round a cycle for
\* ever and is followed no further.
MainlineStep ==
    /\ pc = "mainline_walk"
    /\ walk_pl # None
    /\ Len(mainline) < Fuel
    /\ mainline' = Append(mainline, walk_pl)
    /\ IF ~Fetchable(walk_pl)
       THEN result' = Err(NotFound) /\ pc' = "done" /\ walk_pl' = walk_pl
       ELSE LET next == first_power_parent(events[walk_pl].auth_events, TRUE)
            IN IF ~next.ok
               THEN result' = next /\ pc' = "done" /\ walk_pl' = walk_pl
               ELSE walk_pl' = next.val /\ pc' = pc /\ result' = result
    /\ UNCHANGED <<inputVars, mediaVars, sortVars, orderVars, separateVars, auth_chain_diff,
                   powerVars, topoVars, all_conflicted, sorted_control_levels,
                   resolved_state, todo, pass, sorted_left_events, checked, asked,
                   mainline_map, order_map, to_sort, walk_state, walk_ev, walk_depth>>

\* pl is None: mainline_map is collected and the event of to_sort fetched
MainlineDone ==
    /\ pc = "mainline_walk"
    /\ walk_pl = None
    /\ mainline_map' = mainline_map_of(mainline)
    /\ IF Fetchable(Head(to_sort))
       THEN walk_ev' = Head(to_sort) /\ pc' = "depth_walk"
       ELSE walk_ev' = walk_ev /\ pc' = "done"
    /\ UNCHANGED <<inputVars, mediaVars, sortVars, orderVars, separateVars, auth_chain_diff,
                   powerVars, topoVars, resolveVars, mainline, order_map, to_sort,
                   walk_state, walk_pl, walk_depth>>

\* one turn of `while let Some(sort_ev) = event` of get_mainline_depth
DepthStep ==
    /\ pc = "depth_walk"
    /\ walk_ev # None
    /\ IF walk_ev \in DOMAIN mainline_map
       THEN walk_depth' = Ok(mainline_map[walk_ev]) /\ pc' = "done" /\ walk_ev' = walk_ev
       ELSE LET next == first_power_parent(events[walk_ev].auth_events, TRUE)
            IN IF ~next.ok
               THEN walk_depth' = next /\ pc' = "done" /\ walk_ev' = walk_ev
               ELSE walk_ev' = next.val /\ pc' = pc /\ walk_depth' = walk_depth
    /\ UNCHANGED <<inputVars, mediaVars, sortVars, mainlineVars, orderVars, separateVars,
                   auth_chain_diff, powerVars, topoVars, resolveVars, walk_state, walk_pl>>

\* event is None: `Ok(0)`
DepthDefault ==
    /\ pc = "depth_walk"
    /\ walk_ev = None
    /\ walk_depth' = Ok(0)
    /\ pc' = "done"
    /\ UNCHANGED <<inputVars, mediaVars, sortVars, mainlineVars, orderVars, separateVars,
                   auth_chain_diff, powerVars, topoVars, resolveVars, walk_state, walk_pl,
                   walk_ev>>

NextLoops ==
    \/ GraphWalkStep
    \/ GraphWalkReturn
    \/ TopoStart
    \/ TopoStep
    \/ TopoReturn
    \/ MainlineStep
    \/ MainlineDone
    \/ DepthStep
    \/ DepthDefault

SpecLoops == InitLoops /\ [][NextLoops]_vars

\* the code runs on its own thread of control: a loop that can take a turn
\* takes it
SpecLoopsLive == SpecLoops /\ WF_vars(NextLoops)

\* mainline_sort, on any list of events (an id may come twice) and any
\* resolved power-levels event
MaxSort == 3      \* events of to_sort

InitSort ==
    /\ pc = "mainline"
    /\ \E table \in EventTables, f \in FaultSets :
          /\ events = WithFaults(table, f)
          /\ store = {id \in Ids : <<id, "unknown">> \notin f /\ <<id, "unfetchable">> \notin f}
          /\ known = {id \in Ids : <<id, "unknown">> \notin f /\ <<id, "hidden">> \notin f}
          /\ room_version = (<<None, "version">> \notin f)
    /\ oracle = FreeOracle
    /\ state_sets = <<>>
    /\ auth_chain_sets = <<>>
    /\ to_sort \in SeqsUpTo(Ids, MaxSort)
    /\ resolved_state \in {m \in ConsistentMaps(events) : DOMAIN m \subseteq {<<PowerLevels, "">>}}
    /\ mainline = <<>> /\ mainline_map = EmptyMap /\ order_map = EmptyMap
    /\ todo = <<>>
    /\ pass = 1
    /\ all_conflicted = {}
    /\ sorted_control_levels = <<>>
    /\ sorted_left_events = <<>>
    /\ checked = <<>>
    /\ asked = NoAsk
    /\ result = Pending
    /\ IdleSeparate /\ IdleDiff /\ IdlePower /\ IdleTopo /\ IdleOrder /\ IdleSort /\ IdleMedia /\ IdleLoops

\* one call of mainline_sort
MainlineSort ==
    /\ pc = "mainline"
    /\ LET power_event == Get(resolved_state, <<PowerLevels, "">>)
           sorted == mainline_sort(to_sort, power_event)
       IN /\ result' = sorted
          /\ IF sorted.ok
             THEN /\ sorted_left_events' = sorted.val
                  /\ mainline' = mainline_built(to_sort, power_event)
                  /\ mainline_map' = mainline_map_of(mainline')
                  /\ order_map' = order_map_of(to_sort, mainline_map')
             ELSE UNCHANGED <<sorted_left_events, mainline, mainline_map, order_map>>
    /\ pc' = "done"
    /\ UNCHANGED <<inputVars, loopVars, mediaVars, sortVars, orderVars, separateVars, auth_chain_diff, powerVars, topoVars,
                   all_conflicted, sorted_control_levels, resolved_state, todo, pass,
                   checked, asked, to_sort>>

SpecSort == InitSort /\ [][MainlineSort]_vars

\* resolve called twice on the same state sets, the second time with the
\* state sets (and their auth chain sets) in another order; the orders the
\* hash containers yield are free in both calls, and auth_check is one
\* function of the event and the third-party invite handed to it.
MaxInviteAuth == 2   \* auth parents the invite of the invite fixture declares

\* The invite fixture: two third-party invites by alice, for the tokens t1 and
\* t2, and alice's invite of bob that carries the token t1.
InviteIds == 1..3

InviteFixture(id) ==
    CASE id = 1 -> NewEvent(ThirdPartyInvite, "t1", Alice, Unparsable)
      [] id = 2 -> NewEvent(ThirdPartyInvite, "t2", Alice, Unparsable)
      [] OTHER -> [NewEvent(Member, Bob, Alice, "invite") EXCEPT !.token = "t1"]

InviteTables ==
    {[id \in InviteIds |-> [InviteFixture(id) EXCEPT !.auth_events = auth[id], !.ts = 10 - id]] :
        auth \in {a \in [InviteIds -> SeqsUpTo(InviteIds, MaxInviteAuth)] :
                     /\ \A id \in InviteIds : \A p \in Range(a[id]) : p < id
                     /\ \A id \in InviteIds :
                           InviteFixture(id).membership # "invite" => Len(a[id]) <= MaxAuth}}

\* the tabulated oracles: auth_check rejects the events of `rejected`, and it
\* rejects an invite that is not handed the third-party invite `needed`
TabulatedOracles(table) ==
    {[free |-> FALSE,
      table |-> [q \in (DOMAIN table) \X ({None} \cup DOMAIN table) |->
                    IF q[1] \in rejected THEN "reject"
                    ELSE IF table[q[1]].membership = "invite" /\ needed # None
                            /\ q[2] # needed
                    THEN "reject" ELSE "accept"]] :
        rejected \in SUBSET (DOMAIN table),
        needed \in {None} \cup {id \in DOMAIN table : table[id].type = ThirdPartyInvite}}

InitOrder ==
    /\ pc = "start"
    /\ events \in EventTables \cup InviteTables
    /\ store = DOMAIN events
    /\ known = DOMAIN events
    /\ room_version = TRUE
    /\ oracle \in TabulatedOracles(events)
    /\ state_sets \in SeqsUpTo(ConsistentMaps(events), MaxSets)
    /\ auth_chain_sets = [i \in 1..Len(state_sets) |->
                             AuthChain(events, Values(state_sets[i]), {})]
    /\ IdleSeparate /\ IdleDiff /\ IdlePower /\ IdleTopo /\ IdleResolve /\ IdleOrder /\ IdleMainline /\ IdleSort /\ IdleMedia /\ IdleLoops

\* the second call: the same state sets and auth chain sets, in any order
Rerun ==
    /\ pc = "done"
    /\ run = 1
    /\ first_result' = result
    /\ run' = 2
    /\ \E order \in Permutations(1..Len(state_sets)) :
          /\ state_sets' = [i \in 1..Len(state_sets) |-> state_sets[order[i]]]
          /\ auth_chain_sets' = [i \in 1..Len(state_sets) |-> auth_chain_sets[order[i]]]
    /\ pc' = "start"
    /\ clean' = EmptyMap /\ conflicting' = EmptyMap
    /\ auth_chain_diff' = <<>>
    /\ graph' = EmptyMap /\ sort_result' = Pending
    /\ all_conflicted' = {}
    /\ sorted_control_levels' = <<>>
    /\ resolved_state' = EmptyMap
    /\ todo' = <<>>
    /\ pass' = 0
    /\ sorted_left_events' = <<>>
    /\ mainline' = <<>> /\ mainline_map' = EmptyMap
    /\ order_map' = EmptyMap /\ to_sort' = <<>>
    /\ events_to_sort' = <<>> /\ event_to_pl' = EmptyMap
    /\ asked' = NoAsk
    /\ result' = Pending
    /\ UNCHANGED <<events, store, known, oracle, room_version, powerVars, key_fn, kahn,
                   checked, mediaVars, loopVars>>

NextOrder ==
    \/ Separate
    \/ ReturnClean
    \/ FullConflicted
    \/ SortControl
    \/ BeginControlPass
    \/ AuthCheckEvent
    \/ SortRest
    \/ Finish
    \/ Rerun

SpecOrder == InitOrder /\ [][NextOrder]_vars

\* ---------------------------------------------------- resolve: properties

Returned == pc = "done"
ReturnedOk == pc = "done" /\ result.ok

\* the keys of the input state maps
InputKeys == UNION {DOMAIN state_sets[i] : i \in 1..Len(state_sets)}

\* the events auth_check accepted, in either pass
Accepted == {checked[i].event_id : i \in {j \in 1..Len(checked) : checked[j].verdict = "accept"}}

\* C1: whenever resolve returns Ok, every key of the unconflicted map is in the
\* returned map with its unconflicted event id, whatever the two auth passes
\* did to that key.
C1_UnconflictedKept ==
    ReturnedOk =>
        \A key \in DOMAIN clean : key \in DOMAIN result.val /\ result.val[key] = clean[key]

\* C1's case: resolve returned Ok after the auth passes had put another event
\* under an unconflicted key.
C1_Witness ==
    /\ ReturnedOk
    /\ \E key \in DOMAIN clean :
          key \in DOMAIN resolved_state /\ resolved_state[key] # clean[key]

\* C2: given exactly one state set, resolve returns Ok(that state set); and
\* every map resolve returns, handed back as the only state set, separates into
\* itself and no conflict, so that the second call returns it again.
C2_SingleSetIdentity ==
    Returned =>
        /\ Len(state_sets) = 1 => result = Ok(state_sets[1])
        /\ result.ok =>
              separate(<<result.val>>) = [unconflicted |-> result.val, conflicted |-> EmptyMap]

\* C2's case: resolve returned for a single, non-empty state set while an
\* event of it is unknown to the event store.
C2_Witness ==
    /\ Returned
    /\ Len(state_sets) = 1
    /\ \E key \in DOMAIN state_sets[1] : state_sets[1][key] \notin known \cup store

\* C3 as claimed: the returned keys are the input keys, less the keys that are
\* not unconflicted and all of whose values event_exists denied.
C3_KeysAreInputKeys ==
    ReturnedOk =>
        DOMAIN result.val =
            {key \in InputKeys :
                \/ key \in DOMAIN clean
                \/ \E i \in 1..Len(state_sets) :
                      key \in DOMAIN state_sets[i] /\ state_sets[i][key] \in known}

\* C3, amended: the returned keys are the unconflicted keys together with the
\* (type, state_key) of every event auth_check accepted.
C3_KeysAreCleanAndAccepted ==
    ReturnedOk =>
        DOMAIN result.val = DOMAIN clean \cup {KeyOf(id) : id \in Accepted}

\* C3's case: resolve returned Ok without a key some input holds with an event
\* that exists, and with a key no input holds.
C3_Witness ==
    /\ ReturnedOk
    /\ conflicting # EmptyMap
    /\ \E key \in InputKeys \ DOMAIN result.val :
          \E i \in 1..Len(state_sets) :
              key \in DOMAIN state_sets[i] /\ state_sets[i][key] \in known
    /\ DOMAIN result.val \ InputKeys # {}

\* an auth check whose auth_events held more than one third-party invite
Ambiguous == {i \in 1..Len(checked) : Cardinality(current_third_party(checked[i].auth_events)) > 1}

\* C4: a second call of resolve on the same state sets in another order, with
\* other orders of the hash containers, returns what the first call returned.
C4_OrderIndependent ==
    (pc = "done" /\ run = 2) => result = first_result

\* The two calls do agree when no auth check of either had two third-party
\* invites among its auth_events to pick from.
C4_AgreeUnlessAmbiguous ==
    (pc = "done" /\ run = 2 /\ Ambiguous = {}) => result = first_result

\* C5: when separate finds no conflicted key, resolve returns Ok(the
\* unconflicted map) and has called neither event_fetch nor event_exists.
C5_NoConflictNoFetch ==
    (Returned /\ conflicting = EmptyMap) => (result = Ok(clean) /\ asked = NoAsk)

\* C5's case: resolve returned for two or more non-empty state sets without a
\* conflict, with an unsupported room version.
C5_Witness ==
    /\ Returned
    /\ conflicting = EmptyMap
    /\ Len(state_sets) > 1
    /\ clean # EmptyMap
    /\ ~room_version

\* --------------------------------------------------- separate: properties

Separated == pc = "separated"

\* the inputs that hold the key, in input order
Holders(key) == {i \in 1..Len(state_sets) : key \in DOMAIN state_sets[i]}

\* every input holds the key, and with one and the same event id
HeldAlike(key) ==
    /\ Holders(key) = 1..Len(state_sets)
    /\ \A i, j \in Holders(key) : state_sets[i][key] = state_sets[j][key]

\* the values the inputs hold for the key: one entry per holding input, in
\* input order
IsValuesInInputOrder(values, key) ==
    /\ Len(values) = Cardinality(Holders(key))
    /\ \A i \in Holders(key) :
          values[Cardinality({j \in Holders(key) : j <= i})] = state_sets[i][key]

\* C6: separate puts a key in the unconflicted map exactly when every input
\* holds it with one and the same event id, and with that id; any other key of
\* an input, a key some input lacks included, is in the conflicted map with
\* the values the inputs hold for it, in input order, duplicates kept.
C6_SeparateRule ==
    Separated =>
        \A key \in InputKeys :
            IF HeldAlike(key)
            THEN /\ key \in DOMAIN clean
                 /\ clean[key] = state_sets[1][key]
                 /\ key \notin DOMAIN conflicting
            ELSE /\ key \in DOMAIN conflicting
                 /\ IsValuesInInputOrder(conflicting[key], key)
                 /\ key \notin DOMAIN clean

\* C6's case: separate has put in the conflicted map a key that one input
\* lacks and that the others hold with one and the same event id.
C6_Witness ==
    /\ Separated
    /\ \E key \in DOMAIN conflicting :
          /\ Holders(key) # 1..Len(state_sets)
          /\ Len(conflicting[key]) > 1
          /\ \A i, j \in 1..Len(conflicting[key]) : conflicting[key][i] = conflicting[key][j]

\* C7: the unconflicted and the conflicted keys are disjoint, together they are
\* the keys of the inputs, and an unconflicted value is the value every input
\* holds for its key.
C7_SeparatePartition ==
    Separated =>
        /\ DOMAIN clean \cap DOMAIN conflicting = {}
        /\ DOMAIN clean \cup DOMAIN conflicting = InputKeys
        /\ \A key \in DOMAIN clean :
              \A i \in 1..Len(state_sets) :
                  key \in DOMAIN state_sets[i] /\ state_sets[i][key] = clean[key]

\* C7's case: separate has split the keys of three inputs into a non-empty
\* unconflicted and a non-empty conflicted map.
C7_Witness ==
    /\ Separated
    /\ Len(state_sets) = MaxSepSets
    /\ clean # EmptyMap
    /\ conflicting # EmptyMap

\* ---------------------------------------- get_auth_chain_diff: properties

\* the auth chain sets that hold the id
ChainsWith(id) == {i \in 1..Len(auth_chain_sets) : id \in auth_chain_sets[i]}

\* C8: get_auth_chain_diff yields, each exactly once, the ids that are in at
\* least one but not in all of the auth chain sets; so nothing for no set or
\* one set.
C8_AuthChainDiff ==
    pc = "diffed" =>
        /\ \A i, j \in 1..Len(auth_chain_diff) :
              auth_chain_diff[i] = auth_chain_diff[j] => i = j
        /\ Range(auth_chain_diff) =
              {id \in 1..MaxChainIds :
                  ChainsWith(id) # {} /\ ChainsWith(id) # 1..Len(auth_chain_sets)}
        /\ Len(auth_chain_sets) <= 1 => auth_chain_diff = <<>>

\* C8's case: of three auth chain sets, one id is in all, one in two and one
\* in one of them, and the diff has been taken.
C8_Witness ==
    /\ pc = "diffed"
    /\ Len(auth_chain_sets) = 3
    /\ \E a, b, c \in 1..MaxChainIds :
          /\ Cardinality(ChainsWith(a)) = 3
          /\ Cardinality(ChainsWith(b)) = 2
          /\ Cardinality(ChainsWith(c)) = 1
    /\ Len(auth_chain_diff) = 2

\* ------------------------------------------------ is_power_event: properties

\* C9: is_power_event is true exactly for a power-levels, join-rules or create
\* event with the empty state_key, and for a member event whose content parses
\* with membership leave or ban and whose sender is not its state_key.
C9_PowerEvents ==
    pc = "classified" =>
        (is_power <=>
            \/ /\ event.type \in {PowerLevels, JoinRules, Create}
               /\ event.state_key = ""
            \/ /\ event.type = Member
               /\ event.membership \in {"leave", "ban"}
               /\ (event.state_key = NoKey \/ event.sender # event.state_key))

\* C9's case: a member event that bans another user has been classified.
C9_Witness ==
    /\ pc = "classified"
    /\ event.type = Member
    /\ event.membership = "ban"
    /\ event.state_key \in UserIds \ {event.sender}
    /\ is_power

\* ---------------------------- lexicographical_topological_sort: properties

\* no cycle: every non-empty set of nodes has a node with no edge into the set
Acyclic(g) ==
    \A nodes \in SUBSET (DOMAIN g) \ {{}} : \E n \in nodes : g[n] \cap nodes = {}

\* every edge target is a key of the graph
TargetsAreKeys(g) == \A n \in DOMAIN g : g[n] \subseteq DOMAIN g

Position(sorted, n) == CHOOSE i \in 1..Len(sorted) : sorted[i] = n

IsTopologicalOrder(g, sorted) ==
    /\ Len(sorted) = Cardinality(DOMAIN g)
    /\ Range(sorted) = DOMAIN g
    /\ \A n \in DOMAIN g : \A t \in g[n] : Position(sorted, t) < Position(sorted, n)

\* C10: for an acyclic graph whose edge targets are all keys, the sort returns
\* Ok unless key_fn fails for a key, and the list it returns holds each key
\* exactly once and every edge target before each node with an edge to it.
C10_TopologicalOrder ==
    (pc = "sorted" /\ Acyclic(graph) /\ TargetsAreKeys(graph)) =>
        /\ sort_result.ok <=> \A n \in DOMAIN graph : key_fn[n].ok
        /\ sort_result.ok => IsTopologicalOrder(graph, sort_result.val)

\* C10's case: the sort has returned for an acyclic graph of three keys where
\* one node has edges to the two others, which tie on power level.
C10_Witness ==
    /\ pc = "sorted"
    /\ Acyclic(graph) /\ TargetsAreKeys(graph)
    /\ sort_result.ok
    /\ \E n \in DOMAIN graph :
          /\ Cardinality(graph[n]) = 2
          /\ \A t, u \in graph[n] : key_fn[t].val[1] = key_fn[u].val[1]

\* the list the sort has put out so far, or has returned
Output ==
    IF pc = "kahn" THEN kahn.sorted
    ELSE IF pc = "sorted" /\ sort_result.ok THEN sort_result.val
    ELSE <<>>

\* the keys not in `done` all of whose edge targets are in `done`
Ready(done) == {n \in DOMAIN graph \ done : graph[n] \subseteq done}

\* the tuple (negated power level, origin_server_ts, event id) of a node
SortKey(n) == <<0 - key_fn[n].val[1], key_fn[n].val[2], n>>

\* C11: every element of the output is the least, by (negated power level,
\* origin_server_ts, event id), of the keys not yet put out whose edge targets
\* have all been put out; the sort returns a list only when no such key is
\* left; and the graph of test_lexicographical_sort yields o, l, n, m, p.
C11_LeastReadyFirst ==
    /\ \A i \in 1..Len(Output) :
          LET done == {Output[j] : j \in 1..(i - 1)}
          IN /\ Output[i] \in Ready(done)
             /\ \A m \in Ready(done) :
                   key_fn[m].ok /\ ~TieLess(SortKey(m), SortKey(Output[i]))
    /\ (pc = "sorted" /\ sort_result.ok) => Ready(Range(sort_result.val)) = {}
    /\ (pc = "sorted" /\ graph = TestGraph) => sort_result = Ok(<<4, 1, 3, 2, 5>>)

\* C11's case: the sort has returned a list in which, of two keys without
\* edges, the one with the greater id and the higher power level comes first,
\* and of two with the same power level and timestamp the smaller id.
C11_Witness ==
    /\ pc = "sorted"
    /\ sort_result.ok
    /\ Len(sort_result.val) = 3
    /\ \A n \in DOMAIN graph : graph[n] = {}
    /\ \E a, b, c \in DOMAIN graph :
          /\ a < b /\ b < c
          /\ key_fn[c].val[1] > key_fn[a].val[1]
          /\ key_fn[a].val = key_fn[b].val
          /\ sort_result.val = <<c, a, b>>

\* C12 as claimed: for a graph with a cycle or with an edge whose target is no
\* key, the sort returns an error and no list.
C12_MalformedIsError ==
    (pc = "sorted" /\ ~(Acyclic(graph) /\ TargetsAreKeys(graph))) => ~sort_result.ok

\* ------------------------------------- resolve: the two auth passes, properties

\* the auth checks of a pass with a verdict, as indices of `checked`
ChecksOf(p, verdict) ==
    {i \in 1..Len(checked) : checked[i].pass = p /\ checked[i].verdict = verdict}

\* the control events auth_check rejected in the first pass
RejectedControl == {checked[i].event_id : i \in ChecksOf(1, "reject")}

\* C13 as claimed: a control event rejected in the first pass is no value of
\* the map resolve returns.
C13_RejectedControlAbsent ==
    ReturnedOk => RejectedControl \cap Values(result.val) = {}

\* C13, amended: a control event rejected in the first pass is a value of the
\* map resolve returns only as the unconflicted value of its key.
C13_RejectedControlOnlyUnconflicted ==
    ReturnedOk =>
        \A id \in RejectedControl :
            /\ id \in Values(result.val) => Get(clean, KeyOf(id)) = id
            /\ \A key \in DOMAIN result.val : result.val[key] = id => key = KeyOf(id)

\* C13's case: resolve returned a non-empty map after the first pass rejected
\* a control event that two inputs disagree on, and the map does not hold it.
C13_Witness ==
    /\ ReturnedOk
    /\ result.val # EmptyMap
    /\ \E id \in RejectedControl :
          /\ KeyOf(id) \in DOMAIN conflicting
          /\ id \in Range(conflicting[KeyOf(id)])
          /\ id \notin Values(result.val)

\* the ids of the auth chain difference and of the conflicted values that
\* event_exists denied
Dropped == asked.exists \ known

\* the ids handed to auth_check, in either pass
CheckedIds == {checked[i].event_id : i \in 1..Len(checked)}

\* a dropped id is in no set or list resolve works on
DroppedBeforeSorting ==
    \A id \in Dropped :
        /\ id \notin all_conflicted
        /\ id \notin DOMAIN graph
        /\ id \notin Range(sorted_control_levels)
        /\ id \notin Range(sorted_left_events)
        /\ id \notin CheckedIds

\* event_fetch fails for dropped ids only
OnlyDroppedUnfetchable == Dropped # {} /\ (DOMAIN events \ store) \subseteq Dropped

\* C14 as claimed: an id event_exists denies is not in the full conflicted
\* set, no node of the control graph and handed to auth_check in neither pass,
\* and resolve does not fail with NotFound when such ids are the only ones
\* that cannot be fetched.
C14_DroppedNeverFails ==
    /\ DroppedBeforeSorting
    /\ (Returned /\ OnlyDroppedUnfetchable) => result # Err(NotFound)

\* C14, amended: the same, except that resolve does fail with NotFound because
\* of such an id, but only in mainline_sort, when the walk of the mainline from
\* the resolved power-levels event has to fetch it.
C14_DroppedFailsOnlyOnMainline ==
    /\ DroppedBeforeSorting
    /\ (Returned /\ OnlyDroppedUnfetchable /\ result = Err(NotFound)) =>
          /\ pass = 1
          /\ todo = <<>>
          /\ all_conflicted \ Range(sorted_control_levels) # {}
          /\ mainline_walk(Get(resolved_state, <<PowerLevels, "">>), <<>>, Fuel)
                = Err(NotFound)

\* C14's case: resolve returned a non-empty map after auth checks, although
\* event_exists denied, and event_fetch does not know, a conflicted value.
C14_Witness ==
    /\ ReturnedOk
    /\ result.val # EmptyMap
    /\ checked # <<>>
    /\ \E id \in Dropped : id \in ConflictedIds(conflicting) /\ id \notin store

\* ----------------------------------------- iterative_auth_check: properties

\* the event the next turn of the loop is about
Checking == pc = "auth" /\ todo # <<>>

\* a turn of the loop that ends the call with an error, before auth_check
FailsWith(kind) ==
    /\ result' = Err(kind)
    /\ pc' = "done"
    /\ checked' = checked
    /\ UNCHANGED <<resolved_state, todo>>

\* C15: the turn of the loop for an event that cannot be fetched ends the call
\* with NotFound, the turn for a fetched event without state_key with
\* InvalidPdu; the error is what is returned, with no state map, and nothing is
\* checked after it.
C15_FetchAndStateKey ==
    [][/\ pc # "done"
       /\ (Checking /\ ~Fetchable(Head(todo))) => FailsWith(NotFound)
       /\ (Checking /\ Fetchable(Head(todo)) /\ events[Head(todo)].state_key = NoKey)
             => FailsWith(InvalidPdu)]_vars

\* C15's case: the call returned NotFound at the second event of the list,
\* after the first was accepted.
C15_Witness ==
    /\ pc = "done"
    /\ result = Err(NotFound)
    /\ Len(checked) = 1
    /\ checked[1].verdict = "accept"
    /\ todo # <<>>
    /\ ~Fetchable(Head(todo))

\* ---------------------------------------------------------------- C16

\* the event at the head of the list passes the two checks of its own
HeadChecked ==
    /\ Checking
    /\ Fetchable(Head(todo))
    /\ events[Head(todo)].state_key # NoKey

\* the auth parents the event declares, and those of them fetch_event finds
ParentsOf(id) == events[id].auth_events
FetchedParentsOf(id) == SelectSeq(ParentsOf(id), Fetchable)
MissingParentsOf(id) == {aid \in Range(ParentsOf(id)) : ~Fetchable(aid)}

\* the declared auth parent of a key: the last fetched parent of that key
DeclaredMap(id) ==
    LET parents == FetchedParentsOf(id)
        last(key) == CHOOSE i \in 1..Len(parents) :
                        /\ KeyOf(parents[i]) = key
                        /\ \A j \in (i + 1)..Len(parents) : KeyOf(parents[j]) # key
    IN [key \in {KeyOf(parents[i]) : i \in 1..Len(parents)} |-> parents[last(key)]]

\* the turn of the loop hands the event to auth_check
HandsToAuthCheck ==
    /\ Len(checked') = Len(checked) + 1
    /\ checked'[Len(checked')].event_id = Head(todo)

SortingRest == pc = "auth" /\ pass = 1 /\ todo = <<>>

\* the events handed to mainline_sort as to_sort
ToSort == all_conflicted \ Range(sorted_control_levels)

\* the mainline walked from the resolved power-levels event
Mainline == mainline_walk(Get(resolved_state, <<PowerLevels, "">>), <<>>, Fuel)

\* the walk of the mainline meets an event that cannot be fetched
MissingOnMainline == Mainline = Err(NotFound)

\* the mainline is built, and an event of to_sort cannot be fetched
MissingInToSort == Mainline.ok /\ \E id \in ToSort : ~Fetchable(id)

\* the mainline is built, and the depth of a fetched event of to_sort needs an
\* auth parent that cannot be fetched
MissingForDepth ==
    /\ Mainline.ok
    /\ \E id \in ToSort :
          /\ Fetchable(id)
          /\ get_mainline_depth(id, mainline_map_of(Mainline.val), Fuel) = Err(NotFound)

AbortsNotFound == result' = Err(NotFound) /\ pc' = "done"

\* C17: whenever an event needed for the sort cannot be fetched (on the
\* mainline, in to_sort, or while computing a depth), mainline_sort aborts
\* with NotFound rather than returning a list that omits events
C17_MissingAbortsSort ==
    [][(SortingRest /\ ToSort # {}
          /\ (MissingOnMainline \/ MissingInToSort \/ MissingForDepth))
        => AbortsNotFound]_vars

\* the part of C17 the code has: a missing event on the mainline aborts
C17_MissingOnMainlineAborts ==
    [][(SortingRest /\ ToSort # {} /\ MissingOnMainline) => AbortsNotFound]_vars

\* mainline_sort returned a list without an event of to_sort that cannot be
\* fetched
C17_OmittedUnfetchable ==
    /\ pc = "auth" /\ pass = 2
    /\ \E id \in ToSort : ~Fetchable(id) /\ id \notin Range(sorted_left_events)

\* mainline_sort returned a list without a fetched event of to_sort whose
\* depth needs a missing auth parent
C17_OmittedDepthless ==
    /\ pc = "auth" /\ pass = 2
    /\ \E id \in ToSort : Fetchable(id) /\ id \notin Range(sorted_left_events)

\* ---------------------------------------------------------------- C18

\* the auth context of the record the turn appends to `checked`
HandedContext == checked'[Len(checked')].auth_events

\* the keys of auth_types_for_event the resolved state holds
ResolvedAuthKeys(id) == auth_types_for_event(events[id]) \cap DOMAIN resolved_state

\* those of them whose resolved event fetch_event finds
OverlayKeys(id) == {key \in ResolvedAuthKeys(id) : Fetchable(resolved_state[key])}

\* the declared auth parents, the resolved events of OverlayKeys over them
ExpectedContext(id) ==
    [key \in DOMAIN DeclaredMap(id) \cup OverlayKeys(id) |->
        IF key \in OverlayKeys(id) THEN resolved_state[key] ELSE DeclaredMap(id)[key]]

\* the checks after check i that still find the event of check i in the resolved state
StillResolved(i) ==
    {j \in (i + 1)..Len(checked) :
        \A m \in (i + 1)..(j - 1) :
            checked[m].verdict = "accept"
                => KeyOf(checked[m].event_id) # KeyOf(checked[i].event_id)}

HandedVerdict == checked'[Len(checked')].verdict

\* the loop goes on with the next event of the list, no error raised
GoesOn == todo' = Tail(todo) /\ pc' = "auth" /\ result' = result

\* the resolved map after the turn differs from the one before in `key` alone
OnlyKeyChanged(key) ==
    /\ DOMAIN resolved_state' = DOMAIN resolved_state \cup {key}
    /\ \A k \in DOMAIN resolved_state \ {key} : resolved_state'[k] = resolved_state[k]

\* C19: an accepted event is inserted into the resolved map under its
\* (type, state_key), replacing any earlier entry of that key and touching no
\* other; a rejected event leaves the map unchanged and raises no error; in
\* both cases the check continues with the next event of the list
C19_AcceptInsertsRejectSkips ==
    [][HandsToAuthCheck =>
          LET id == Head(todo)
          IN /\ HandedVerdict = "accept" =>
                   /\ OnlyKeyChanged(KeyOf(id))
                   /\ resolved_state'[KeyOf(id)] = id
                   /\ GoesOn
             /\ HandedVerdict = "reject" =>
                   /\ resolved_state' = resolved_state
                   /\ GoesOn]_vars

\* an event was rejected, the check went on, and the next event, accepted,
\* replaced the entry the resolved map held under its key (the check of an
\* event that declares no auth parent saw that entry in its auth context)
C19_Witness ==
    /\ pc = "auth"
    /\ Len(checked) = 2
    /\ checked[1].verdict = "reject"
    /\ checked[2].verdict = "accept"
    /\ LET id == checked[2].event_id
       IN /\ ParentsOf(id) = <<>>
          /\ Get(checked[2].auth_events, KeyOf(id)) \notin {None, id}
          /\ resolved_state[KeyOf(id)] = id
          /\ KeyOf(checked[1].event_id) \notin DOMAIN resolved_state

\* ---------------------------------------------------------------- C20

\* the first auth parent of an event that is a power-levels event with empty
\* state_key, None when there is none
FirstPowerParent(id) ==
    LET aids == events[id].auth_events
        power == {i \in 1..Len(aids) :
                     /\ Fetchable(aids[i])
                     /\ events[aids[i]].type = PowerLevels
                     /\ events[aids[i]].state_key = ""}
    IN IF power = {} THEN None
       ELSE aids[CHOOSE i \in power : \A j \in power : i <= j]

\* the sequence is a chain: each event is followed by its first power-levels
\* auth parent, and the last event has none
IsPowerChain(chain) ==
    /\ \A i \in 1..(Len(chain) - 1) : chain[i + 1] = FirstPowerParent(chain[i])
    /\ chain # <<>> => FirstPowerParent(chain[Len(chain)]) = None

\* the map gives the last event of the chain depth 0 and every other event
\* one more than the event after it, so the first event has the highest depth
IsDepthFromRoot(map, chain) ==
    /\ DOMAIN map = Range(chain)
    /\ chain # <<>> => map[chain[Len(chain)]] = 0
    /\ \A i \in 1..(Len(chain) - 1) : map[chain[i]] = map[chain[i + 1]] + 1
    /\ \A id \in DOMAIN map : map[id] <= map[chain[1]]

PowerChainFrom(id) ==
    CHOOSE chain \in SeqsUpTo(DOMAIN events, Cardinality(DOMAIN events)) :
        chain # <<>> /\ chain[1] = id /\ IsPowerChain(chain)

\* the depth of the first mainline member on the chain of the event, 0 when
\* there is none
DepthFromChain(id) ==
    LET chain == PowerChainFrom(id)
        members == {i \in 1..Len(chain) : chain[i] \in DOMAIN mainline_map}
    IN IF members = {} THEN 0
       ELSE mainline_map[chain[CHOOSE i \in members : \A j \in members : i <= j]]

\* mainline_sort returned a list
SortReturned == pc = "done" /\ result.ok

\* C21: the mainline depth of an event is the depth of the first mainline
\* member met on the walk from the event itself along first power-levels auth
\* parents, 0 when the walk meets none; without a resolved power-levels event
\* the mainline is empty and every event has depth 0
C21_DepthOfFirstMainlineMember ==
    /\ \A id \in DOMAIN order_map : order_map[id][1] = DepthFromChain(id)
    /\ (SortReturned /\ <<PowerLevels, "">> \notin DOMAIN resolved_state) =>
          /\ mainline = <<>>
          /\ \A id \in DOMAIN order_map : order_map[id][1] = 0

\* with a mainline of two events, an event outside the mainline got depth 1
\* from the mainline member it cites and another got depth 0
C21_Witness ==
    /\ SortReturned
    /\ Len(mainline) = 2
    /\ \E id, other \in DOMAIN order_map \ DOMAIN mainline_map :
          /\ order_map[id][1] = 1
          /\ order_map[other][1] = 0

\* ---------------------------------------------------------------- C22

\* the events mainline_sort can meet: those of to_sort, the resolved
\* power-levels event and all their auth ancestors
MetBySort ==
    LET seeds == Range(to_sort)
                   \cup {resolved_state[k] : k \in DOMAIN resolved_state \cap {<<PowerLevels, "">>}}
    IN AuthChain(events, seeds, seeds)

AllMetFetchable == MetBySort \subseteq store

\* the key mainline_sort orders an event by
MainlineKey(id) == <<DepthFromChain(id), events[id].ts, id>>

\* the sequence holds every id of the set once, in ascending key order
IsSortedListOf(sorted, ids) ==
    /\ Range(sorted) = ids
    /\ Len(sorted) = Cardinality(ids)
    /\ \A i, j \in 1..Len(sorted) :
          i < j => TieLess(MainlineKey(sorted[i]), MainlineKey(sorted[j]))

\* C22: when every event of to_sort and every auth parent met is fetchable,
\* mainline_sort returns each distinct id of to_sort exactly once, in
\* ascending order of (mainline depth, origin_server_ts, event id); the
\* returned list is fixed by the set of ids of to_sort, so it is the same for
\* every ordering of to_sort
C22_SortedByDepthTsId ==
    (pc = "done" /\ AllMetFetchable) =>
        /\ result.ok
        /\ result.val = sorted_left_events
        /\ IsSortedListOf(sorted_left_events, Range(to_sort))

\* a list with an id twice and out of order was sorted, and the depth put an
\* event before one with a smaller timestamp
C22_Witness ==
    /\ SortReturned /\ AllMetFetchable
    /\ Len(to_sort) > Cardinality(Range(to_sort))
    /\ \E i, j \in 1..Len(sorted_left_events) :
          /\ i < j
          /\ events[sorted_left_events[i]].ts > events[sorted_left_events[j]].ts
    /\ \E i, j \in 1..Len(to_sort) :
          i < j /\ TieLess(MainlineKey(to_sort[j]), MainlineKey(to_sort[i]))

\* ---------------------------------------------------------------- C23

\* the ids handed to auth_check in pass p
CheckedIn(p) == {checked[i].event_id : i \in {j \in 1..Len(checked) : checked[j].pass = p}}

AllFetchable == DOMAIN events \subseteq store

\* C23: with every event fetchable, the ids auth-checked in the mainline pass
\* of a call that ran to its end are exactly the ids of the full conflicted
\* set outside the sorted control list, whether the control pass accepted or
\* rejected the ids of that list; in any call the mainline pass checks no id
\* outside that difference and no id is handed to auth_check in both passes
C23_MainlinePassChecksTheRest ==
    /\ CheckedIn(1) \subseteq Range(sorted_control_levels)
    /\ CheckedIn(2) \subseteq all_conflicted \ Range(sorted_control_levels)
    /\ CheckedIn(1) \cap CheckedIn(2) = {}
    /\ (ReturnedOk /\ pass = 2 /\ AllFetchable) =>
          /\ CheckedIn(1) = Range(sorted_control_levels)
          /\ CheckedIn(2) = all_conflicted \ Range(sorted_control_levels)

\* a call ran to its end with every event fetchable; the control pass
\* rejected an event and the mainline pass checked another
C23_Witness ==
    /\ ReturnedOk /\ pass = 2 /\ AllFetchable
    /\ ChecksOf(1, "reject") # {}
    /\ ChecksOf(1, "accept") # {}
    /\ CheckedIn(2) # {}

\* ---------------------------------------------------------------- C24

\* the level the claim gives the sender of an event
LevelOfSender(id) ==
    IF ~Fetchable(id) \/ FirstPowerParent(id) = None THEN 0
    ELSE LET power == events[FirstPowerParent(id)]
         IN IF events[id].sender \in DOMAIN power.users
            THEN power.users[events[id].sender]
            ELSE power.users_default

\* C24: the power level get_power_level_for_sender gives an event is the
\* entry of its sender in the users map of its first fetchable power-levels
\* auth parent, users_default of that parent when the sender has no entry,
\* and 0 when there is no such parent or the event cannot be fetched
C24_SenderPowerLevel ==
    \A id \in DOMAIN event_to_pl : event_to_pl[id] = LevelOfSender(id)

\* the levels of three events were found: one from the users map, one from
\* users_default and one 0 for want of a power-levels auth parent
C24_Witness ==
    /\ pc = "done"
    /\ \E id, other, orphan \in DOMAIN event_to_pl :
          /\ FirstPowerParent(id) # None
          /\ events[id].sender \in DOMAIN events[FirstPowerParent(id)].users
          /\ event_to_pl[id] = 100
          /\ FirstPowerParent(other) # None
          /\ events[other].sender \notin DOMAIN events[FirstPowerParent(other)].users
          /\ event_to_pl[other] = 10
          /\ FirstPowerParent(orphan) = None
          /\ event_to_pl[orphan] = 0

\* ---------------------------------------------------------------- C25

Deserialized == pc = "done"

\* the names of the fields of the JSON object
FieldNames == {json[i].name : i \in 1..Len(json)}

\* the field is there and holds a value of its type
HasValue(name) == FieldOf(json, name) \notin {Absent, Null, WrongShape}

\* the field is missing or holds null
IsUnset(name) == FieldOf(json, name) \in {Absent, Null}

Yields(variant) == media_source.ok /\ media_source.val.variant = variant

\* C25 as stated: Encrypted whenever a file field is present, Plain when
\* only url is present, a missing-field error when neither is present
C25_FilePresentIsEncrypted ==
    Deserialized =>
        /\ "file" \in FieldNames => Yields("Encrypted")
        /\ ("url" \in FieldNames /\ "file" \notin FieldNames) => Yields("Plain")
        /\ ("url" \notin FieldNames /\ "file" \notin FieldNames)
              => media_source = Err(MissingField)

\* C25 as the code has it: a field that holds null counts as missing and a
\* field that holds a value of the wrong shape fails the deserialization;
\* otherwise Encrypted (with the file) whenever file holds a value, with or
\* without url and in either order, Plain (with the url) when url alone holds
\* a value, and the missing-field error when neither does
C25_FileValueIsEncrypted ==
    Deserialized =>
        IF WrongShape \in {FieldOf(json, "url"), FieldOf(json, "file")}
        THEN media_source = Err(InvalidType)
        ELSE /\ HasValue("file") =>
                   media_source = Ok([variant |-> "Encrypted", value |-> FieldOf(json, "file")])
             /\ (HasValue("url") /\ IsUnset("file")) =>
                   media_source = Ok([variant |-> "Plain", value |-> FieldOf(json, "url")])
             /\ (IsUnset("url") /\ IsUnset("file")) => media_source = Err(MissingField)

\* an object with url before file, both set, was deserialized as Encrypted
C25_Witness ==
    /\ Deserialized
    /\ \E i, j \in 1..Len(json) :
          i < j /\ json[i].name = "url" /\ json[j].name = "file"
    /\ HasValue("url") /\ HasValue("file")
    /\ Yields("Encrypted")

\* ---------------------------------------------------------------- C26

RECURSIVE InDiffClosure(_, _)
\* the ids reached from a set of ids along auth_events edges whose target
\* lies in auth_diff (here all_conflicted), the set included
InDiffClosure(frontier, reached) ==
    LET next == UNION {Range(AuthEventsOf(id)) \cap all_conflicted : id \in frontier}
    IN IF next \subseteq reached THEN reached
       ELSE InDiffClosure(next \ reached, reached \cup next)

\* C26: after add_event_and_auth_chain_to_graph ran for every seed, the keys
\* of the graph are the seeds and the ids reached from them through
\* auth_events edges whose targets lie in auth_diff (a seed outside auth_diff
\* is a key too), the edges of a key are its auth parents in auth_diff, and
\* every edge target is a key
C26_GraphIsInDiffClosure ==
    pc = "done" =>
        /\ DOMAIN graph = InDiffClosure(Range(events_to_sort), Range(events_to_sort))
        /\ \A n \in DOMAIN graph : graph[n] = Range(AuthEventsOf(n)) \cap all_conflicted
        /\ TargetsAreKeys(graph)

\* a seed outside auth_diff with an auth parent outside it is a key without
\* edges, and another seed led to a key that is no seed
C26_Witness ==
    /\ pc = "done"
    /\ \E seed \in Range(events_to_sort) \ all_conflicted :
          /\ AuthEventsOf(seed) # <<>>
          /\ seed \in DOMAIN graph
          /\ graph[seed] = {}
    /\ \E n \in DOMAIN graph \ Range(events_to_sort) :
          \E seed \in Range(events_to_sort) : n \in graph[seed]

\* ---------------------------------------------------------------- C27

\* the control events of the full conflicted set
ControlEvents == {id \in all_conflicted : is_power_event_id(id)}

\* reverse_topological_power_sort returned a list to resolve
ControlSorted == pc \in {"sorted", "auth", "done"} /\ sort_result.ok

\* the events of the sorted list that are no control events
DrawnIn == Range(sorted_control_levels) \ ControlEvents

\* C27: the list reverse_topological_power_sort returns holds every node of
\* the control graph once: the control events and every other event of the
\* full conflicted set reached from a control event through auth edges inside
\* the set; all of them are checked in the first pass, none in the mainline pass
C27_ControlListIsWholeGraph ==
    ControlSorted =>
        /\ Range(sorted_control_levels) = InDiffClosure(ControlEvents, ControlEvents)
        /\ Range(sorted_control_levels) = DOMAIN graph
        /\ Len(sorted_control_levels) = Cardinality(DOMAIN graph)
        /\ CheckedIn(2) \cap Range(sorted_control_levels) = {}
        /\ pass = 2 => CheckedIn(1) = Range(sorted_control_levels)

\* an event that is no control event (the join the ban cites) was sorted
\* with the control events, checked in the first pass and left out of the
\* mainline pass
C27_Witness ==
    /\ ReturnedOk /\ pass = 2
    /\ \E id \in DrawnIn :
          /\ id \in CheckedIn(1)
          /\ id \notin Range(to_sort)
          /\ id \notin CheckedIn(2)
          /\ \E control \in ControlEvents : id \in graph[control]

\* ---------------------------------------------------------------- C28

\* the checks, in the order control pass then mainline pass, that accepted an
\* event of the key
AcceptedAt(key) ==
    {i \in 1..Len(checked) :
        checked[i].verdict = "accept" /\ KeyOf(checked[i].event_id) = key}

LastAccepted(key) ==
    checked[CHOOSE i \in AcceptedAt(key) : \A j \in AcceptedAt(key) : j <= i].event_id

\* C28: every value of the returned state map is the unconflicted id of its
\* key or, for a key that is not unconflicted, the last event of that key
\* that auth_check accepted (control pass, then mainline pass), an id of the
\* full conflicted set stored under its own (type, state_key)
C28_ValuesAreCleanOrLastAccepted ==
    ReturnedOk =>
        \A key \in DOMAIN result.val :
            IF key \in DOMAIN clean THEN result.val[key] = clean[key]
            ELSE /\ AcceptedAt(key) # {}
                 /\ result.val[key] = LastAccepted(key)
                 /\ result.val[key] \in all_conflicted
                 /\ KeyOf(result.val[key]) = key

\* two events of a conflicted key were accepted and the later one returned,
\* next to an unconflicted key some accepted event would have replaced
C28_Witness ==
    /\ ReturnedOk
    /\ \E key \in DOMAIN result.val \ DOMAIN clean :
          /\ Cardinality(AcceptedAt(key)) = 2
          /\ result.val[key] = LastAccepted(key)
    /\ \E key \in DOMAIN clean :
          AcceptedAt(key) # {} /\ LastAccepted(key) # clean[key]

\* ---------------------------------------------------------------- C29

\* C29: the room version is validated only after the conflicts were found and
\* the control events sorted: with an unsupported version resolve returns
\* Ok(unconflicted map) when no key is conflicted, the error of the control
\* sort when that fails, and Unsupported otherwise; Unsupported is returned
\* in no other case, and nothing was auth-checked before it
C29_VersionCheckedAfterSort ==
    Returned =>
        /\ ~room_version =>
              IF DOMAIN conflicting = {} THEN result = Ok(clean)
              ELSE IF sort_result.ok THEN result = Err(Unsupported)
              ELSE result = sort_result
        /\ result = Err(Unsupported) =>
              /\ ~room_version
              /\ DOMAIN conflicting # {}
              /\ sort_result.ok
              /\ checked = <<>>

\* a call with an unsupported version sorted two control events and returned
\* Unsupported
C29_Witness ==
    /\ Returned
    /\ result = Err(Unsupported)
    /\ Len(sorted_control_levels) >= 2

\* the auth_events of the event table, as a graph
AuthRelation == [id \in DOMAIN events |-> Range(events[id].auth_events)]

\* C30: the stack walk of add_event_and_auth_chain_to_graph and the Kahn loop
\* that sorts its graph finish on every event table, cyclic ones included, and
\* the mainline walk and the mainline-depth walk finish on every table whose
\* auth_events relation is acyclic, whatever the fetcher answers.
C30_LoopsTerminate ==
    /\ (pc = "graph_walk") ~> (pc = "sorted")
    /\ (pc = "mainline_walk" /\ Acyclic(AuthRelation)) ~> (pc = "done")

\* on a table with a cycle the walk built a graph with a cycle and the sort of
\* it returned
C30_Witness ==
    /\ pc = "sorted"
    /\ ~Acyclic(AuthRelation)
    /\ ~Acyclic(graph)
    /\ Cardinality(DOMAIN graph) >= 2
    /\ sort_result.ok

====
